---- MODULE Spec2Model ----
(***************************************************************************)
(* Verification model of branchedflowsim: the integer multi-index          *)
(* (common/multiindex), the initial-condition generator, the observer      *)
(* framework and the tracer driver (tracer/).                              *)
(*                                                                         *)
(* Axes are numbered 1..dim here; axis 1 is the code's axis 0 (outermost,  *)
(* slowest varying), axis dim is the code's axis mDimension-1 (fastest).   *)
(***************************************************************************)
EXTENDS Integers, Sequences, FiniteSets, TLC

\* ------------------------------------------------------------------------
\*  bounds of the model
\* ------------------------------------------------------------------------
MaxDim == 2          \* largest multi-index dimension explored
MaxNegIdx == 1       \* lower bounds explored: -MaxNegIdx .. 0
MaxIdx == 2          \* upper bounds explored: 0 .. MaxIdx
MaxSplit == 2        \* largest argument of split()
MaxWorkers == 2      \* largest thread count requested or reported by the hardware
MaxParticles == 4    \* largest particle count N of a configuration
MaxManifold == 2     \* largest manifold dimension of a generator
MaxSteps == 1        \* largest number of integration steps of one trajectory
MaxAdded == 1        \* observers added to the tracer besides its energy observer
MaxGridDim == 2      \* largest number of axes of a grid that is looked up
MaxExtent == 3       \* largest extent of a grid axis
MaxGridIdx == 4      \* largest absolute value of an index component looked up
MaxPotDim == 2       \* largest number of axes of a potential
MaxPotExtent == 2    \* largest extent of a potential or of a grid handed to it
MaxDeriv == 1        \* largest entry of a derivative index vector
MaxFileGrids == 1    \* largest number of grids in a potential file
MaxStored == 2       \* largest number of grids stored in a potential
MaxPositions == 2    \* positions a particle is placed at
MaxEnergy == 2       \* largest potential or total energy, in quanta
MaxRndExtent == 4    \* largest extent of the first axis of a randomised grid
MaxParts == 2        \* largest thread_count of randomizePhases
MaxWorld == 2        \* largest world dimension of a generator
MaxTrajectories == 4 \* trajectories traced into the density
MaxDensThreads == 3  \* integration threads that share one DensityWorker
MaxDensWork == 9     \* threads times trajectories of one density run
MaxGrids == 2        \* density grids the memory limit allows
QueueLimit == 2      \* first value and step of mMaxQueueSize (500 in the code), scaled down
MaxRows == 3         \* largest range of the polar axis of a radial_3d generator
MaxRowBound == 3     \* largest number of cells of one row of a radial_3d generator
MaxObsWatches == 2   \* observers of the master observer whose callback is followed
MaxObsSamples == 3   \* samples integrate_const hands to the callback per trajectory
MaxObsTrajectories == 2 \* trajectories one clone of the master observer sees
MaxTokens == 5       \* longest token vector handed to parse_token_vector
MaxParses == 2       \* calls of parse_token_vector on one argument set
GenVectSize == 3     \* capacity N of gen_vect = c_vector<3>

LowerValues == (0 - MaxNegIdx)..0
UpperValues == 0..MaxIdx

\* ------------------------------------------------------------------------
\*  program constants
\* ------------------------------------------------------------------------
MAX_MULTIINDEX_DIMENSION == 4
\* default of Tracer::mMaxThreads, size_t(-1): stands for a count larger than
\* every value std::thread::hardware_concurrency() takes
UnlimitedThreads == 2147483647
\* number of value bits of std::size_t (LP64)
SizeBits == 64
\* largest dimension getIndexFn() has an index function for
MaxIndexFnDimension == 6

VARIABLES
    index,        \* the MultiIndex under test (unit-level specification)
    indexErr,     \* exception raised by the last MultiIndex operation
    indexErrBy,   \* the operation that raised it, "none" if none was raised
    indexSteps,   \* increments applied since the bounds were set up and init() ran
    splitSrc,     \* the MultiIndex split() was last called on
    splitArg,     \* argument n of the last split(), 0 if none yet
    subIndices    \* vector returned by the last split()

indexVars == <<index, indexErr, indexErrBy, indexSteps, splitSrc, splitArg, subIndices>>

VARIABLES
    \* --- Tracer, main thread
    mainPc,              \* position of the thread that calls Tracer::trace
    mMaxThreads,         \* Tracer::mMaxThreads
    threadcount,         \* local of trace(): number of workers started
    joined,              \* futures of trace() whose get() has returned
    mWatches,            \* MasterObserver::mWatches of the tracer: observer kinds
    endTracingCalls,     \* per root observer: endTracing() calls received
    terminated,          \* std::terminate() was reached
    \* --- process-wide counters of MasterObserver
    mParticleNumber,
    mParticleCount,
    \* --- InitialConditionGenerator
    mManifoldDimension,
    mConfig,             \* stored configuration
    mManifoldIndex,      \* the MultiIndex handing out cells
    mIsGenerating,       \* owner of the generator mutex, 0 when free
    \* --- thread-shared observers
    mMutex,              \* per observer: owner of its mutex, 0 when free
    \* --- workers (traceThreadFunction_imp)
    pc,                  \* position of each worker
    incoming,            \* the worker's InitialCondition
    exc,                 \* exception in flight or that ended the trajectory
    mRootObserver,       \* per worker and local observer: clone still attached
    combined,            \* per worker and local observer: combine() calls for the clone
    mActiveWatches,      \* per worker: activity flags of its local observers
    mCurrentTrajectory,  \* per worker: number of cached (state, time) points
    mCurrentTrajectoryNum,
    step,                \* per worker: index of the current sample
    sharedDone,          \* per worker: shared observers already replayed to
    replayPt,            \* per worker: cached points already replayed
    lastCall,            \* per worker and observer: the last call delivered
    \* --- bookkeeping of what was handed out
    handed,              \* manifold index -> times handed to a worker
    started,             \* manifold index -> trajectories started with it
    ended,               \* manifold index -> trajectories ended with it
    idUse                \* trajectory id -> times assigned

mainVars == <<mainPc, mMaxThreads, threadcount, joined, mWatches,
              endTracingCalls, terminated>>
counterVars == <<mParticleNumber, mParticleCount>>
genVars == <<mManifoldDimension, mConfig, mManifoldIndex, mIsGenerating>>
workerVars == <<pc, incoming, exc, mRootObserver, combined, mActiveWatches,
                mCurrentTrajectory, mCurrentTrajectoryNum, step, sharedDone,
                replayPt, lastCall>>
bookVars == <<handed, started, ended, idUse>>
tracerVars == <<mainVars, counterVars, genVars, mMutex, workerVars, bookVars>>

VARIABLES
    \* --- DynamicGridBase (unit-level specification of the grid indexing)
    grid,         \* the grid: mDimension, mExtents, mTrafoType
    gridErr,      \* exception raised by the constructor or the last operation
    lookup        \* index and returned offset of the last offset computation

gridVars == <<grid, gridErr, lookup>>

VARIABLES
    \* --- Potential (unit-level specification of the grid store)
    pot,          \* the Potential: mDimension, mExtents, mData
    potErr        \* exception raised by the last operation on it

potVars == <<pot, potErr>>

VARIABLES
    \* --- ParticleInPotentialDynamics (unit-level specification of normalizeEnergy)
    mPotential,   \* potential energy interpolated at each position
    particle,     \* the State handed in: position, squared speed |v|^2
    normCall      \* the last normalizeEnergy call: its arguments and outcome

energyVars == <<mPotential, particle, normCall>>

VARIABLES
    \* --- potgen: randomizePhases (unit-level specification)
    field,        \* the complex grid: per offset the phase of the cell, in quarter turns
    fieldExtents, \* extents of the grid, which is in FFT_INDEX access mode
    randPc,       \* position of the caller of randomizePhases
    tasks         \* the std::async tasks: sub-index, position and locals of each

randVars == <<field, fieldExtents, randPc, tasks>>

VARIABLES
    \* --- args::ArgumentSet (unit-level specification of add_argument)
    mRequiredPositionalArguments,
    mOptionalPositionalArguments,
    mNamedArguments,
    addCall       \* the last add_argument call: its argument, what preceded it, its outcome

argsVars == <<mRequiredPositionalArguments, mOptionalPositionalArguments,
              mNamedArguments, addCall>>

VARIABLES
    \* --- InitialConditionGenerator (unit-level specification of init)
    generator,    \* mWorldDimension, mManifoldDimension, mConfig, mManifoldIndex
    initCall      \* the last init(config) call: its argument and outcome

icgVars == <<generator, initCall>>

VARIABLES
    \* --- DensityWorker (unit-level specification of the density work queue)
    worker,       \* the DensityWorker: queue, counters, grids and their mutexes
    densThread,   \* per integration thread: position and locals in endTrajectory
    densMain      \* the tracing around it: trajectories handed out, end of tracing

densVars == <<worker, densThread, densMain>>

VARIABLES
    \* --- MasterObserver callback and CausticObserver (unit-level specification)
    obs,          \* one clone of the MasterObserver: mWatches, mActiveWatches, ...
    caustic,      \* the CausticObserver among its observers
    obsCtl,       \* the worker around it: position, sample time, trajectories begun
    obsLog        \* what the clone has done: trajectories, samples, watch results

obsVars == <<obs, caustic, obsCtl, obsLog>>

VARIABLES
    \* --- InitialConditionGenerator (unit-level specification of the iteration)
    icg,           \* the generator: kind, mManifoldIndex, mManifoldPosition
    newCondition   \* the InitialCondition the last advance() has filled

maniVars == <<icg, newCondition>>

VARIABLES
    \* --- ArgumentSet (unit-level specification of parse_token_vector)
    argset,      \* the ArgumentSet whose arguments store into the targets
    targets,     \* the variables the arguments are bound to by store(...)
    cache,       \* the value cache shared by the handlers of store_many(gen_vect)
    parseCall    \* the calls of parse_token_vector: count, targets before, exception

parseVars == <<argset, targets, cache, parseCall>>

\* what the actions of one specification leave alone: the state of the others
exceptIndex == <<tracerVars, gridVars, potVars, energyVars, randVars, argsVars, icgVars, densVars, obsVars, maniVars, parseVars>>
exceptTracer == <<indexVars, gridVars, potVars, energyVars, randVars, argsVars, icgVars, densVars, obsVars, maniVars, parseVars>>
exceptGrid == <<indexVars, tracerVars, potVars, energyVars, randVars, argsVars, icgVars, densVars, obsVars, maniVars, parseVars>>
exceptPot == <<indexVars, tracerVars, gridVars, energyVars, randVars, argsVars, icgVars, densVars, obsVars, maniVars, parseVars>>
exceptEnergy == <<indexVars, tracerVars, gridVars, potVars, randVars, argsVars, icgVars, densVars, obsVars, maniVars, parseVars>>
exceptRand == <<indexVars, tracerVars, gridVars, potVars, energyVars, argsVars, icgVars, densVars, obsVars, maniVars, parseVars>>
exceptArgs == <<indexVars, tracerVars, gridVars, potVars, energyVars, randVars, icgVars, densVars, obsVars, maniVars, parseVars>>
exceptGen == <<indexVars, tracerVars, gridVars, potVars, energyVars, randVars, argsVars, densVars, obsVars, maniVars, parseVars>>
exceptDens == <<indexVars, tracerVars, gridVars, potVars, energyVars, randVars, argsVars, icgVars, obsVars, maniVars, parseVars>>
exceptObs == <<indexVars, tracerVars, gridVars, potVars, energyVars, randVars, argsVars, icgVars, densVars, maniVars, parseVars>>
exceptMani == <<indexVars, tracerVars, gridVars, potVars, energyVars, randVars, argsVars, icgVars, densVars, obsVars, parseVars>>
exceptParse == <<indexVars, tracerVars, gridVars, potVars, energyVars, randVars, argsVars, icgVars, densVars, obsVars, maniVars>>

\* ========================================================================
\*  MultiIndex (common/multiindex.hpp, common/multiindex.cpp)
\* ========================================================================

\* A MultiIndex object: bounds, position, dimension and validity flag.
MultiIndex(d, lo, up, p, v) ==
    [dim |-> d, lower |-> lo, upper |-> up, pos |-> p, valid |-> v]

Fill(d, x) == [i \in 1..d |-> x]

\* checkNotValid(): TRUE when the call throws std::logic_error
checkNotValid_never(mi) == FALSE
checkNotValid(mi) == mi.valid

\* setLowerBoundAt / setUpperBoundAt / setLowerBound / setUpperBound
setLowerBoundAt(mi, d, lb) ==
    IF checkNotValid(mi) THEN [err |-> "logic_error", mi |-> mi]
    ELSE [err |-> "none", mi |-> [mi EXCEPT !.lower[d] = lb]]

setUpperBoundAt(mi, d, ub) ==
    IF checkNotValid(mi) THEN [err |-> "logic_error", mi |-> mi]
    ELSE [err |-> "none", mi |-> [mi EXCEPT !.upper[d] = ub]]

setLowerBound(mi, lb) ==
    IF checkNotValid(mi) THEN [err |-> "logic_error", mi |-> mi]
    ELSE [err |-> "none", mi |-> [mi EXCEPT !.lower = Fill(mi.dim, lb)]]

setUpperBound(mi, ub) ==
    IF checkNotValid(mi) THEN [err |-> "logic_error", mi |-> mi]
    ELSE [err |-> "none", mi |-> [mi EXCEPT !.upper = Fill(mi.dim, ub)]]

\* init(): throws while valid or when some lower bound is not below its
\* upper bound; otherwise moves to the lower bounds and becomes valid.
init(mi) ==
    IF checkNotValid(mi) THEN [err |-> "logic_error", mi |-> mi]
    ELSE IF \E i \in 1..mi.dim : mi.lower[i] >= mi.upper[i]
         THEN [err |-> "logic_error", mi |-> mi]
         ELSE [err |-> "none", mi |-> [mi EXCEPT !.pos = mi.lower, !.valid = TRUE]]

\* value an axis is reset to when it carries (mCurrentPos[i] = mLowerBound[i])
CarryReset_zero(mi, i) == 0
CarryReset(mi, i) == mi.lower[i]

\* the loop of increment(): axis i, then the axes before it
RECURSIVE IncrementFrom(_, _)
IncrementFrom(mi, i) ==
    IF i = 0 THEN [mi EXCEPT !.valid = FALSE]
    ELSE LET p == mi.pos[i] + 1
         IN  IF p < mi.upper[i]
             THEN [mi EXCEPT !.pos[i] = p]
             ELSE IncrementFrom([mi EXCEPT !.pos[i] = CarryReset(mi, i)], i - 1)

increment(mi) == IncrementFrom(mi, mi.dim)

\* C++ integer division (truncation toward zero)
TruncDiv(a, b) == IF a >= 0 THEN a \div b ELSE -((-a) \div b)

\* upper boundary of the i-th part (i counts from 0) of split(n)
SplitBoundary_divFirst(mi, n, i) ==
    (i + 1) * TruncDiv(mi.upper[1] - mi.lower[1], n) + mi.lower[1]
SplitBoundary(mi, n, i) ==
    TruncDiv((i + 1) * (mi.upper[1] - mi.lower[1]), n) + mi.lower[1]

\* the loop of split(): parts i, i+1, .. n-1 appended to result
RECURSIVE SplitLoop(_, _, _, _, _)
SplitLoop(mi, n, i, last_boundary, result) ==
    IF i = n THEN [err |-> "none", parts |-> result]
    ELSE LET next == SplitBoundary(mi, n, i)
             copy == [mi EXCEPT !.valid = FALSE]
             lowd == setLowerBoundAt(copy, 1, last_boundary).mi
             both == setUpperBoundAt(lowd, 1, next).mi
         IN  IF last_boundary = next
             THEN SplitLoop(mi, n, i + 1, last_boundary, result)
             ELSE LET r == init(both)
                  IN  IF r.err # "none"
                      THEN [err |-> r.err, parts |-> <<>>]
                      ELSE SplitLoop(mi, n, i + 1, next, Append(result, r.mi))

split(mi, n) ==
    IF n = 0 THEN [err |-> "domain_error", parts |-> <<>>]
    ELSE SplitLoop(mi, n, 0, mi.lower[1], <<>>)

NoIndex == MultiIndex(1, <<0>>, <<0>>, <<0>>, FALSE)

\* ========================================================================
\*  Tracer, MasterObserver, observers, InitialConditionGenerator (tracer/)
\* ========================================================================
Workers == 1..MaxWorkers
ObsIds == 1..(1 + MaxAdded)

\* a multiset kept as a function element -> count
BagAdd(b, x) == IF x \in DOMAIN b THEN [b EXCEPT ![x] = @ + 1] ELSE b @@ (x :> 1)
Min(a, b) == IF a <= b THEN a ELSE b

\* --- observers ----------------------------------------------------------
\* kinds of observer: the tracer's EnergyErrorObserver (thread-local, its
\* watch() returns false), another thread-local one, a thread-shared one,
\* and the thread-local CausticObserver
IsLocal(kind) == kind \in {"energy", "local", "caustic"}
IsShared(kind) == kind = "shared"

\* MasterObserver::mLocalWatches / mSharedWatches as positions in mWatches
mLocalWatches(ws) == {o \in 1..Len(ws) : IsLocal(ws[o])}
mSharedWatches(ws) ==
    SelectSeq([o \in 1..Len(ws) |-> o], LAMBDA o : IsShared(ws[o]))

\* values watch() of an observer of this kind can return
WatchResults(kind) == IF kind = "energy" THEN {FALSE} ELSE BOOLEAN

NoCall == [kind |-> "none", traj |-> 0, t |-> 0]
Call(k, id, time) == [kind |-> k, traj |-> id, t |-> time]

\* ThreadLocalObserver::reduce() on a clone whose mRootObserver is set
\* (attached) or null: combine into the root only when set, then null
reduce_keepRoot(attached) == [combine |-> attached, root |-> attached]
reduce(attached) == [combine |-> attached, root |-> FALSE]

\* ~ThreadLocalObserver(): TRUE when std::terminate() is called
DestructorTerminates(attached) == attached

\* std::unique_lock on InitialConditionGenerator::mIsGenerating can be taken
LockGenerator_noMutex(owner) == TRUE
LockGenerator(owner) == owner = 0

\* ThreadSharedObserver::getLock() can be taken
getLock_noMutex(owner) == TRUE
getLock(owner) == owner = 0

\* ++mParticleNumber on the atomic counter
NextParticleNumber_lost(n) == n
NextParticleNumber(n) == n + 1

\* --- tracer -------------------------------------------------------------
\* catch(int& i) around integrate_const: StopTrajectory and OutOfDomain are
\* both thrown as throw(1)
CaughtByTraceLoop_none(e) == FALSE
CaughtByTraceLoop_stopOnly(e) == e = "StopTrajectory"
CaughtByTraceLoop(e) == e \in {"StopTrajectory", "OutOfDomain"}

\* ParticleInPotentialDynamics::stateUpdate: TRUE when it throws throw(1)
stateUpdateThrows(periodic, inside) == ~periodic /\ ~inside

\* f.get() of a worker's future returns or rethrows
FutureReady_noWait(p) == TRUE
FutureReady(p) == p \in {"done", "failed"}

\* Tracer::setMaxThreads
setMaxThreads(threads) == IF threads = 0 THEN 1 ELSE threads

\* --- generator ----------------------------------------------------------
RECURSIVE Pow(_, _)
Pow(b, e) == IF e = 0 THEN 1 ELSE b * Pow(b, e - 1)

\* floor(pow(N, 1.0 / m))
RootCount(N, m) ==
    CHOOSE r \in 0..N : Pow(r, m) <= N /\ Pow(r + 1, m) > N

\* init_generator
init_generator(mi, N) == setUpperBound(mi, RootCount(N, mi.dim))

\* InitialConditionGenerator::init after its argument checks: the index is
\* given the bounds [0, bound) on every axis and initialised
initIndex(mi, N) ==
    LET a == setLowerBound(mi, 0)
        b == IF a.err = "none" THEN init_generator(a.mi, N) ELSE a
    IN  IF b.err = "none" THEN init(b.mi) ELSE b

NoCondition == [valid |-> FALSE, cell |-> <<>>]

\* state after constructing a generator of manifold dimension m and a Tracer
\* (whose constructor adds the energy observer)
TracerConstructed(m) ==
    /\ mainPc = "idle"
    /\ mMaxThreads = UnlimitedThreads
    /\ threadcount = 0
    /\ joined = 0
    /\ mWatches = <<"energy">>
    /\ endTracingCalls = [o \in ObsIds |-> 0]
    /\ terminated = FALSE
    /\ mParticleNumber = 0
    /\ mParticleCount = 0
    /\ mManifoldDimension = m
    /\ mConfig = [particles |-> 0, normalize |-> TRUE]
    /\ mManifoldIndex = MultiIndex(m, Fill(m, 0), Fill(m, 0), Fill(m, 0), FALSE)
    /\ mIsGenerating = 0
    /\ mMutex = [o \in ObsIds |-> 0]
    /\ pc = [w \in Workers |-> "none"]
    /\ incoming = [w \in Workers |-> NoCondition]
    /\ exc = [w \in Workers |-> "none"]
    /\ mRootObserver = [w \in Workers |-> [o \in ObsIds |-> FALSE]]
    /\ combined = [w \in Workers |-> [o \in ObsIds |-> 0]]
    /\ mActiveWatches = [w \in Workers |-> [o \in ObsIds |-> FALSE]]
    /\ mCurrentTrajectory = [w \in Workers |-> 0]
    /\ mCurrentTrajectoryNum = [w \in Workers |-> 0]
    /\ step = [w \in Workers |-> 0]
    /\ sharedDone = [w \in Workers |-> 0]
    /\ replayPt = [w \in Workers |-> 0]
    /\ lastCall = [w \in Workers |-> [o \in ObsIds |-> NoCall]]
    /\ handed = <<>>
    /\ started = <<>>
    /\ ended = <<>>
    /\ idUse = <<>>

\* ------------------------------------------------------------------------
\*  objects a specification does not use stay as constructed
\* ------------------------------------------------------------------------
\* no MultiIndex under test
IndexUnused ==
    /\ index = NoIndex
    /\ indexErr = "none"
    /\ indexErrBy = "none"
    /\ indexSteps = 0
    /\ splitSrc = NoIndex
    /\ splitArg = 0
    /\ subIndices = <<>>

\* DynamicGrid(): one axis of extent 0, identity access
NoGrid == [mDimension |-> 1, mExtents |-> <<0>>,
           mIndexFunction |-> "IDENTITY", mTrafoType |-> "IDENTITY"]
NoLookup == [by |-> "none", mode |-> "IDENTITY", index |-> <<>>, offset |-> 0]

GridUnused ==
    /\ grid = NoGrid
    /\ gridErr = "none"
    /\ lookup = NoLookup

\* Potential(1, support, 1): one axis of extent 1, nothing stored
NoPotential == [mDimension |-> 1, mExtents |-> <<1>>, mData |-> <<>>]

PotUnused ==
    /\ pot = NoPotential
    /\ potErr = "none"

NoNormCall == [called |-> FALSE, total_energy |-> 0, epot |-> 0, err |-> "none"]

\* a flat potential and a particle at rest
EnergyUnused ==
    /\ mPotential = <<0>>
    /\ particle = [position |-> 1, speed2 |-> 0]
    /\ normCall = NoNormCall

\* a grid of one cell, no randomisation called
RandUnused ==
    /\ field = <<0>>
    /\ fieldExtents = <<1>>
    /\ randPc = "idle"
    /\ tasks = <<>>

NoAddCall == [called |-> FALSE, name |-> "", positional |-> FALSE,
              afterMulti |-> FALSE, err |-> "none"]

\* ArgumentSet(): no argument added
ArgsUnused ==
    /\ mRequiredPositionalArguments = <<>>
    /\ mOptionalPositionalArguments = <<>>
    /\ mNamedArguments = {}
    /\ addCall = NoAddCall

\* InitialConditionConfiguration(): nothing set
NoConfig == [particles |-> 0, normalize |-> TRUE, dynamics |-> FALSE,
             support |-> 0, offset |-> 0]
NoInitCall == [called |-> FALSE, config |-> NoConfig, err |-> "none"]

\* InitialConditionGenerator(world_dimension, manifold_dimension, name)
Generator(world, manifold) ==
    [mWorldDimension |-> world, mManifoldDimension |-> manifold,
     mConfig |-> NoConfig,
     mManifoldIndex |-> MultiIndex(manifold, Fill(manifold, 0), Fill(manifold, 0),
                                   Fill(manifold, 0), FALSE)]

GenUnused ==
    /\ generator = Generator(1, 1)
    /\ initCall = NoInitCall

\* a density grid: how often each trajectory was drawn into it
EmptyGrid == [t \in 1..MaxTrajectories |-> 0]

\* DensityWorker(size): an empty queue, one grid and one mutex
DensityWorker ==
    [mQueue |-> <<>>, mQueueSize |-> 0, mMaxQueueSize |-> QueueLimit,
     mMutexCount |-> 1, mFreeGrids |-> 1, mCanCreateGrid |-> TRUE,
     mWorkMutexes |-> <<0>>, mDensities |-> <<EmptyGrid>>,
     mAddDensityMutex |-> 0]

DensUnused ==
    /\ worker = DensityWorker
    /\ densThread = <<>>
    /\ densMain = [pc |-> "tracing", count |-> 0, nextId |-> 1]

\* a clone of the MasterObserver made by clone(): the flags are resized, not set
MasterObserverClone(watches) ==
    [mWatches |-> watches,
     mActiveWatches |-> [o \in 1..Len(watches) |-> FALSE],
     mCurrentTrajectoryNum |-> 0, mCurrentTrajectory |-> 0]

\* CausticObserver(dimension, breakOnFirst)
CausticObserver(breakOnFirst) ==
    [mBreakOnFirst |-> breakOnFirst, mOldArea |-> 0, mCausticCount |-> 0,
     mParticleNumber |-> 0, mCausticPositions |-> <<>>]

ObsUnused ==
    /\ obs = MasterObserverClone(<<>>)
    /\ caustic = CausticObserver(FALSE)
    /\ obsCtl = [pc |-> "idle", t |-> 0, started |-> 0, samples |-> 1]
    /\ obsLog = <<>>

\* a generator whose init() has not been called; rows holds, for radial_3d,
\* the number of cells next_trajectory computes for each row
ManifoldGenerator(kind, manifold, particles, rows) ==
    [kind |-> kind, mManifoldDimension |-> manifold, particles |-> particles,
     rows |-> rows, initialised |-> FALSE,
     mManifoldIndex |-> MultiIndex(manifold, Fill(manifold, 0), Fill(manifold, 0),
                                   Fill(manifold, 0), FALSE),
     mManifoldPosition |-> Fill(manifold, <<0, 1>>)]

NoInitialCondition ==
    [mIsValid |-> FALSE, mManifoldIndex |-> <<>>, mManifoldCoordinates |-> <<>>,
     upper |-> <<>>]

ManiUnused ==
    /\ icg = ManifoldGenerator("default", 1, 1, <<>>)
    /\ newCondition = NoInitialCondition

\* ArgumentSet(name): no argument
EmptyArgumentSet == [required |-> <<>>, optional |-> <<>>, named |-> {}]

\* the variables handed to store, store_constant and store_many, as declared
FreshTargets == [a |-> 0, b |-> 0, f |-> FALSE, c |-> <<>>, v |-> <<>>]

NoParseCall == [count |-> 0, before |-> FreshTargets, err |-> "none"]

ParseUnused ==
    /\ argset = EmptyArgumentSet
    /\ targets = FreshTargets
    /\ cache = <<>>
    /\ parseCall = NoParseCall

\* every object but the ones of specification `unit` is unused
Idle(unit) ==
    /\ (unit # "index") => IndexUnused
    /\ (unit # "tracer") => TracerConstructed(1)
    /\ (unit # "grid") => GridUnused
    /\ (unit # "pot") => PotUnused
    /\ (unit # "energy") => EnergyUnused
    /\ (unit # "rand") => RandUnused
    /\ (unit # "args") => ArgsUnused
    /\ (unit # "gen") => GenUnused
    /\ (unit # "dens") => DensUnused
    /\ (unit # "obs") => ObsUnused
    /\ (unit # "mani") => ManiUnused
    /\ (unit # "parse") => ParseUnused

\* ------------------------------------------------------------------------
\*  unit-level specification of MultiIndex
\* ------------------------------------------------------------------------

\* dimensions handed to the constructors: the ones explored, and one more
\* than the maximum
CtorDims == (1..MaxDim) \cup {MAX_MULTIINDEX_DIMENSION + 1}

\* MultiIndex(dims): TRUE when the constructor throws std::logic_error
ConstructThrows(dims) == dims > MAX_MULTIINDEX_DIMENSION

\* MultiIndex(dimensions, lower, upper): setLowerBound, setUpperBound and
\* init() on the new object, with no test of the dimension.  The outcomes
\* are a set: with more than MAX_MULTIINDEX_DIMENSION axes the loop of
\* init() reads past the end of the bound arrays, so that beyond the
\* comparison of the first axes it may throw or not.
Construct3(dimensions, lower, upper) ==
    LET raw == MultiIndex(dimensions, Fill(dimensions, 0), Fill(dimensions, 0),
                          Fill(dimensions, 0), FALSE)
        lo == setLowerBound(raw, lower).mi
        up == setUpperBound(lo, upper).mi
        r == init(up)
    IN  IF dimensions <= MAX_MULTIINDEX_DIMENSION \/ r.err # "none"
        THEN {r}
        ELSE {r, [err |-> "logic_error", mi |-> up]}

\* an index the operations below can be called on: its constructor returned,
\* and it has no more axes than its arrays have entries (what the operations
\* do beyond that is undefined and not followed)
IndexUsable ==
    /\ indexErrBy # "MultiIndex"
    /\ index.dim <= MAX_MULTIINDEX_DIMENSION

\* MultiIndex(dims): bounds and position are left uninitialised by the
\* constructor, so the bounds start with arbitrary values.  The position is
\* never read before init() overwrites it.
\* MultiIndex(dims, lower, upper): the index starts initialised.
\* A constructor that throws leaves no object.
IndexInit ==
    /\ \E d \in CtorDims :
         \/ /\ ~ConstructThrows(d)
            /\ \E lo \in [1..d -> LowerValues], up \in [1..d -> UpperValues] :
                   index = MultiIndex(d, lo, up, Fill(d, 0), FALSE)
            /\ indexErr = "none" /\ indexErrBy = "none"
         \/ /\ ConstructThrows(d)
            /\ index = NoIndex
            /\ indexErr = "logic_error" /\ indexErrBy = "MultiIndex"
         \/ \E lower \in LowerValues, upper \in UpperValues :
               \E r \in Construct3(d, lower, upper) :
                  IF r.err = "none"
                  THEN index = r.mi /\ indexErr = "none" /\ indexErrBy = "none"
                  ELSE /\ index = NoIndex
                       /\ indexErr = r.err /\ indexErrBy = "MultiIndex"
    /\ indexSteps = 0
    /\ splitSrc = NoIndex
    /\ splitArg = 0
    /\ subIndices = <<>>
    /\ Idle("index")

\* the vector returned by split() is a temporary of the caller: it is gone
\* when the next operation on the index starts
DropSplitResult ==
    /\ splitSrc' = NoIndex
    /\ splitArg' = 0
    /\ subIndices' = <<>>

IndexSetLowerBoundAt ==
    /\ IndexUsable
    /\ \E d \in 1..index.dim, lb \in LowerValues :
        LET r == setLowerBoundAt(index, d, lb)
        IN  /\ index' = r.mi
            /\ indexErr' = r.err
            /\ indexErrBy' = IF r.err = "none" THEN "none" ELSE "setLowerBoundAt"
            /\ indexSteps' = IF r.err = "none" THEN 0 ELSE indexSteps
            /\ DropSplitResult
            /\ UNCHANGED exceptIndex

IndexSetUpperBoundAt ==
    /\ IndexUsable
    /\ \E d \in 1..index.dim, ub \in UpperValues :
        LET r == setUpperBoundAt(index, d, ub)
        IN  /\ index' = r.mi
            /\ indexErr' = r.err
            /\ indexErrBy' = IF r.err = "none" THEN "none" ELSE "setUpperBoundAt"
            /\ indexSteps' = IF r.err = "none" THEN 0 ELSE indexSteps
            /\ DropSplitResult
            /\ UNCHANGED exceptIndex

IndexSetLowerBound ==
    /\ IndexUsable
    /\ \E lb \in LowerValues :
        LET r == setLowerBound(index, lb)
        IN  /\ index' = r.mi
            /\ indexErr' = r.err
            /\ indexErrBy' = IF r.err = "none" THEN "none" ELSE "setLowerBound"
            /\ indexSteps' = IF r.err = "none" THEN 0 ELSE indexSteps
            /\ DropSplitResult
            /\ UNCHANGED exceptIndex

IndexSetUpperBound ==
    /\ IndexUsable
    /\ \E ub \in UpperValues :
        LET r == setUpperBound(index, ub)
        IN  /\ index' = r.mi
            /\ indexErr' = r.err
            /\ indexErrBy' = IF r.err = "none" THEN "none" ELSE "setUpperBound"
            /\ indexSteps' = IF r.err = "none" THEN 0 ELSE indexSteps
            /\ DropSplitResult
            /\ UNCHANGED exceptIndex

IndexInitCall ==
    LET r == init(index)
    IN  /\ IndexUsable
        /\ index' = r.mi
        /\ indexErr' = r.err
        /\ indexErrBy' = IF r.err = "none" THEN "none" ELSE "init"
        /\ indexSteps' = IF r.err = "none" THEN 0 ELSE indexSteps
        /\ DropSplitResult
        /\ UNCHANGED exceptIndex

\* ++index; the code asserts valid()
IndexIncrement ==
    /\ IndexUsable
    /\ index.valid
    /\ index' = increment(index)
    /\ indexErr' = "none"
    /\ indexErrBy' = "none"
    /\ indexSteps' = indexSteps + 1
    /\ DropSplitResult
    /\ UNCHANGED exceptIndex

IndexSplit ==
    /\ IndexUsable
    /\ \E n \in 1..MaxSplit :
        LET r == split(index, n)
        IN  /\ indexErr' = r.err
            /\ indexErrBy' = IF r.err = "none" THEN "none" ELSE "split"
            /\ splitSrc' = index
            /\ splitArg' = n
            /\ subIndices' = r.parts
            /\ UNCHANGED <<index, indexSteps>>
            /\ UNCHANGED exceptIndex

IndexNext ==
    \/ IndexSetLowerBoundAt
    \/ IndexSetUpperBoundAt
    \/ IndexSetLowerBound
    \/ IndexSetUpperBound
    \/ IndexInitCall
    \/ IndexIncrement
    \/ IndexSplit

\* ------------------------------------------------------------------------
\*  specification of one Tracer::trace run
\* ------------------------------------------------------------------------
Init ==
    /\ \E m \in 1..MaxManifold : TracerConstructed(m)
    /\ Idle("tracer")

\* --- main thread --------------------------------------------------------
\* Tracer::setMaxThreads(threads)
SetMaxThreads ==
    /\ mainPc = "idle"
    /\ \E threads \in 0..MaxWorkers : mMaxThreads' = setMaxThreads(threads)
    /\ UNCHANGED <<exceptTracer, mainPc, threadcount, joined, mWatches, endTracingCalls,
                   terminated, counterVars, genVars, mMutex, workerVars, bookVars>>

\* Tracer::addObserver -> MasterObserver::addObserverObject
AddObserver ==
    /\ mainPc = "idle"
    /\ Len(mWatches) < 1 + MaxAdded
    /\ \E kind \in {"local", "shared"} : mWatches' = Append(mWatches, kind)
    /\ UNCHANGED <<exceptTracer, mainPc, mMaxThreads, threadcount, joined, endTracingCalls,
                   terminated, counterVars, genVars, mMutex, workerVars, bookVars>>

\* Tracer::trace up to the loop that starts the workers: the generator's
\* init(config), MasterObserver::startTracing, the thread count, std::async
TraceStart ==
    /\ mainPc = "idle"
    /\ \E N \in 0..MaxParticles, normalize \in BOOLEAN, hardware \in 0..MaxWorkers :
         LET r == initIndex(mManifoldIndex, N)
             n == Min(mMaxThreads, hardware)
         IN  IF N < 1
             THEN \* init throws std::logic_error before storing anything
                  /\ mainPc' = "failed"
                  /\ UNCHANGED <<threadcount, mConfig, mManifoldIndex, pc,
                                 mParticleNumber, mParticleCount>>
             ELSE IF r.err # "none"
             THEN \* a MultiIndex call of init throws: mConfig is stored already
                  /\ mainPc' = "failed"
                  /\ mConfig' = [particles |-> N, normalize |-> normalize]
                  /\ mManifoldIndex' = r.mi
                  /\ UNCHANGED <<threadcount, pc, mParticleNumber, mParticleCount>>
             ELSE /\ mainPc' = "join"
                  /\ mConfig' = [particles |-> N, normalize |-> normalize]
                  /\ mManifoldIndex' = r.mi
                  /\ mParticleCount' = 0
                  /\ mParticleNumber' = 0
                  /\ threadcount' = n
                  /\ pc' = [w \in Workers |-> IF w <= n THEN "spawned" ELSE pc[w]]
    /\ UNCHANGED <<exceptTracer, mMaxThreads, joined, mWatches, endTracingCalls, terminated,
                   mManifoldDimension, mIsGenerating, mMutex, incoming, exc,
                   mRootObserver, combined, mActiveWatches, mCurrentTrajectory,
                   mCurrentTrajectoryNum, step, sharedDone, replayPt, lastCall,
                   bookVars>>

\* f.get() on the next future: returns when that worker has ended, rethrows
\* the exception that ended it
TraceJoin ==
    /\ mainPc = "join"
    /\ joined < threadcount
    /\ FutureReady(pc[joined + 1])
    /\ IF pc[joined + 1] = "failed"
       THEN mainPc' = "unwind" /\ joined' = joined
       ELSE mainPc' = mainPc /\ joined' = joined + 1
    /\ UNCHANGED <<exceptTracer, mMaxThreads, threadcount, mWatches, endTracingCalls,
                   terminated, counterVars, genVars, mMutex, workerVars, bookVars>>

\* an exception leaves trace(): the destructors of the std::async futures
\* wait for the workers still running
TraceUnwind ==
    /\ mainPc = "unwind"
    /\ \A w \in 1..threadcount : pc[w] \in {"done", "failed"}
    /\ mainPc' = "failed"
    /\ UNCHANGED <<exceptTracer, mMaxThreads, threadcount, joined, mWatches, endTracingCalls,
                   terminated, counterVars, genVars, mMutex, workerVars, bookVars>>

\* MasterObserver::finishTracing and the return of trace()
TraceFinish ==
    /\ mainPc = "join"
    /\ joined = threadcount
    /\ endTracingCalls' = [o \in ObsIds |->
            IF o <= Len(mWatches) THEN endTracingCalls[o] + 1 ELSE endTracingCalls[o]]
    /\ mainPc' = "returned"
    /\ UNCHANGED <<exceptTracer, mMaxThreads, threadcount, joined, mWatches, terminated,
                   counterVars, genVars, mMutex, workerVars, bookVars>>

\* --- worker: traceThreadFunction_imp -------------------------------------
\* MasterObserver thread_observer(mMasterObserver.clone()): makeThreadCopy
\* attaches a clone of every thread-local observer to its root, thread-shared
\* observers are handed out themselves
WorkerClone(w) ==
    /\ pc[w] = "spawned"
    /\ mRootObserver' = [mRootObserver EXCEPT ![w] =
            [o \in ObsIds |-> o \in mLocalWatches(mWatches)]]
    /\ mActiveWatches' = [mActiveWatches EXCEPT ![w] = [o \in ObsIds |-> FALSE]]
    /\ pc' = [pc EXCEPT ![w] = "advance"]
    /\ UNCHANGED <<exceptTracer, mainVars, counterVars, genVars, mMutex, incoming, exc, combined,
                   mCurrentTrajectory, mCurrentTrajectoryNum, step, sharedDone,
                   replayPt, lastCall, bookVars>>

\* InitialConditionGenerator::advance, first part: take the mutex, test the
\* index, read the manifold position of the current cell (next_trajectory)
AdvanceEnter(w) ==
    /\ pc[w] = "advance"
    /\ LockGenerator(mIsGenerating)
    /\ IF ~mManifoldIndex.valid
       THEN /\ incoming' = [incoming EXCEPT ![w].valid = FALSE]
            /\ pc' = [pc EXCEPT ![w] = "exit"]
            /\ UNCHANGED mIsGenerating
       ELSE /\ incoming' = [incoming EXCEPT ![w] =
                    [valid |-> FALSE, cell |-> mManifoldIndex.pos]]
            /\ pc' = [pc EXCEPT ![w] = "generate"]
            /\ mIsGenerating' = w
    /\ UNCHANGED <<exceptTracer, mainVars, counterVars, mManifoldDimension, mConfig,
                   mManifoldIndex, mMutex, exc, mRootObserver, combined,
                   mActiveWatches, mCurrentTrajectory, mCurrentTrajectoryNum,
                   step, sharedDone, replayPt, lastCall, bookVars>>

\* advance, second part: generateNormalized (normalizeEnergy throws
\* std::runtime_error where the energy cannot be reached), the condition
\* becomes valid, the index is incremented, the mutex is released
AdvanceGenerate(w) ==
    /\ pc[w] = "generate"
    /\ \E reachable \in (IF mConfig.normalize THEN BOOLEAN ELSE {TRUE}) :
         IF ~reachable
         THEN /\ exc' = [exc EXCEPT ![w] = "runtime_error"]
              /\ pc' = [pc EXCEPT ![w] = "unwind"]
              /\ UNCHANGED <<incoming, mManifoldIndex, handed>>
         ELSE /\ incoming' = [incoming EXCEPT ![w].valid = TRUE]
              /\ handed' = BagAdd(handed, incoming[w].cell)
              /\ mManifoldIndex' = increment(mManifoldIndex)
              /\ pc' = [pc EXCEPT ![w] = "start"]
              /\ UNCHANGED exc
    /\ mIsGenerating' = 0
    /\ UNCHANGED <<exceptTracer, mainVars, counterVars, mManifoldDimension, mConfig, mMutex,
                   mRootObserver, combined, mActiveWatches, mCurrentTrajectory,
                   mCurrentTrajectoryNum, step, sharedDone, replayPt, lastCall,
                   started, ended, idUse>>

\* MasterObserver::startTrajectory
StartTrajectory(w) ==
    /\ pc[w] = "start"
    /\ LET id == NextParticleNumber(mParticleNumber)
       IN  /\ mParticleNumber' = id
           /\ mCurrentTrajectoryNum' = [mCurrentTrajectoryNum EXCEPT ![w] = id]
           /\ idUse' = BagAdd(idUse, id)
           /\ lastCall' = [lastCall EXCEPT ![w] = [o \in ObsIds |->
                  IF o \in mLocalWatches(mWatches)
                  THEN Call("start", id, 0) ELSE lastCall[w][o]]]
    /\ mActiveWatches' = [mActiveWatches EXCEPT ![w] =
            [o \in ObsIds |-> o \in mLocalWatches(mWatches)]]
    /\ mCurrentTrajectory' = [mCurrentTrajectory EXCEPT ![w] = 0]
    /\ started' = BagAdd(started, incoming[w].cell)
    /\ step' = [step EXCEPT ![w] = 0]
    /\ exc' = [exc EXCEPT ![w] = "none"]
    /\ pc' = [pc EXCEPT ![w] = "observe"]
    /\ UNCHANGED <<exceptTracer, mainVars, mParticleCount, genVars, mMutex, incoming,
                   mRootObserver, combined, sharedDone, replayPt, handed, ended>>

\* where a worker goes when exception e leaves integrate_const
AfterThrow(e) == IF CaughtByTraceLoop(e) THEN "finish" ELSE "unwind"

\* MasterObserver::operator() called by integrate_const with the sample of
\* index step[w]; integrate_const then either takes another step or returns
Observe(w) ==
    /\ pc[w] = "observe"
    /\ \E r \in [ObsIds -> BOOLEAN], last \in BOOLEAN :
         LET called == {o \in mLocalWatches(mWatches) : mActiveWatches[w][o]}
             still_watching == \/ mSharedWatches(mWatches) # <<>>
                               \/ \E o \in called : r[o]
         IN  /\ \A o \in ObsIds :
                    IF o \in called THEN r[o] \in WatchResults(mWatches[o])
                                    ELSE r[o] = FALSE
             /\ (step[w] = MaxSteps) => last
             /\ mCurrentTrajectory' = [mCurrentTrajectory EXCEPT ![w] = @ + 1]
             /\ mActiveWatches' = [mActiveWatches EXCEPT ![w] =
                    [o \in ObsIds |-> mActiveWatches[w][o] /\ r[o]]]
             /\ lastCall' = [lastCall EXCEPT ![w] = [o \in ObsIds |->
                    IF o \in called
                    THEN Call("watch", mCurrentTrajectoryNum[w], step[w])
                    ELSE lastCall[w][o]]]
             /\ IF ~still_watching
                THEN /\ last
                     /\ exc' = [exc EXCEPT ![w] = "StopTrajectory"]
                     /\ pc' = [pc EXCEPT ![w] = AfterThrow("StopTrajectory")]
                ELSE /\ exc' = exc
                     /\ pc' = [pc EXCEPT ![w] = IF last THEN "finish" ELSE "step"]
    /\ UNCHANGED <<exceptTracer, mainVars, counterVars, genVars, mMutex, incoming, mRootObserver,
                   combined, mCurrentTrajectoryNum, step, sharedDone, replayPt,
                   bookVars>>

\* one step of the stepper: RayDynamics::stateUpdate throws OutOfDomain when
\* the boundaries are not periodic and the particle is outside the grid
Step(w) ==
    /\ pc[w] = "step"
    /\ \E periodic \in BOOLEAN, inside \in BOOLEAN :
         IF stateUpdateThrows(periodic, inside)
         THEN /\ exc' = [exc EXCEPT ![w] = "OutOfDomain"]
              /\ pc' = [pc EXCEPT ![w] = AfterThrow("OutOfDomain")]
              /\ step' = step
         ELSE /\ step' = [step EXCEPT ![w] = @ + 1]
              /\ pc' = [pc EXCEPT ![w] = "observe"]
              /\ exc' = exc
    /\ UNCHANGED <<exceptTracer, mainVars, counterVars, genVars, mMutex, incoming, mRootObserver,
                   combined, mActiveWatches, mCurrentTrajectory,
                   mCurrentTrajectoryNum, sharedDone, replayPt, lastCall, bookVars>>

\* the thread-shared observer a worker in finishTrajectory replays to next
CurrentShared(w) == mSharedWatches(mWatches)[sharedDone[w] + 1]

\* MasterObserver::finishTrajectory, loop over mSharedWatches: take the
\* observer's lock and call its startTrajectory
SharedBegin(w) ==
    /\ pc[w] = "finish"
    /\ mCurrentTrajectory[w] > 0
    /\ sharedDone[w] < Len(mSharedWatches(mWatches))
    /\ LET f == CurrentShared(w)
       IN  /\ getLock(mMutex[f])
           /\ mMutex' = [mMutex EXCEPT ![f] = w]
           /\ lastCall' = [lastCall EXCEPT ![w][f] =
                  Call("start", mCurrentTrajectoryNum[w], 0)]
    /\ replayPt' = [replayPt EXCEPT ![w] = 0]
    /\ pc' = [pc EXCEPT ![w] = "replay"]
    /\ UNCHANGED <<exceptTracer, mainVars, counterVars, genVars, incoming, exc, mRootObserver,
                   combined, mActiveWatches, mCurrentTrajectory,
                   mCurrentTrajectoryNum, step, sharedDone, bookVars>>

\* f->watch(point.s, point.t) for the next cached point; break when it
\* returns false (the remaining points are skipped)
SharedWatch(w) ==
    /\ pc[w] = "replay"
    /\ replayPt[w] < mCurrentTrajectory[w]
    /\ \E watching \in BOOLEAN :
         replayPt' = [replayPt EXCEPT ![w] =
                         IF watching THEN @ + 1 ELSE mCurrentTrajectory[w]]
    /\ lastCall' = [lastCall EXCEPT ![w][CurrentShared(w)] =
            Call("watch", mCurrentTrajectoryNum[w], replayPt[w])]
    /\ UNCHANGED <<exceptTracer, mainVars, counterVars, genVars, mMutex, pc, incoming, exc,
                   mRootObserver, combined, mActiveWatches, mCurrentTrajectory,
                   mCurrentTrajectoryNum, step, sharedDone, bookVars>>

\* f->endTrajectory and the release of the lock at the end of the loop body
SharedEnd(w) ==
    /\ pc[w] = "replay"
    /\ replayPt[w] = mCurrentTrajectory[w]
    /\ LET f == CurrentShared(w)
       IN  /\ lastCall' = [lastCall EXCEPT ![w][f] =
                  Call("end", mCurrentTrajectoryNum[w], 0)]
           /\ mMutex' = [mMutex EXCEPT ![f] = 0]
    /\ sharedDone' = [sharedDone EXCEPT ![w] = @ + 1]
    /\ replayPt' = [replayPt EXCEPT ![w] = 0]
    /\ pc' = [pc EXCEPT ![w] = "finish"]
    /\ UNCHANGED <<exceptTracer, mainVars, counterVars, genVars, incoming, exc, mRootObserver,
                   combined, mActiveWatches, mCurrentTrajectory,
                   mCurrentTrajectoryNum, step, bookVars>>

\* rest of finishTrajectory: endTrajectory of the local observers and
\* ++mParticleCount; the worker then goes on to ++incoming
FinishLocal(w) ==
    /\ pc[w] = "finish"
    /\ mCurrentTrajectory[w] = 0 \/ sharedDone[w] = Len(mSharedWatches(mWatches))
    /\ IF mCurrentTrajectory[w] > 0
       THEN /\ lastCall' = [lastCall EXCEPT ![w] = [o \in ObsIds |->
                   IF o \in mLocalWatches(mWatches)
                   THEN Call("end", mCurrentTrajectoryNum[w], 0)
                   ELSE lastCall[w][o]]]
            /\ mParticleCount' = mParticleCount + 1
            /\ ended' = BagAdd(ended, incoming[w].cell)
       ELSE UNCHANGED <<lastCall, mParticleCount, ended>>
    /\ sharedDone' = [sharedDone EXCEPT ![w] = 0]
    /\ pc' = [pc EXCEPT ![w] = "advance"]
    /\ UNCHANGED <<exceptTracer, mainVars, mParticleNumber, genVars, mMutex, incoming, exc,
                   mRootObserver, combined, mActiveWatches, mCurrentTrajectory,
                   mCurrentTrajectoryNum, step, replayPt, handed, started, idUse>>

\* the worker function is left, by return or by an exception:
\* ~MasterObserver reduces every local clone, then the clones are destroyed
WorkerExit(w) ==
    /\ pc[w] \in {"exit", "unwind"}
    /\ LET red == [o \in ObsIds |-> reduce(mRootObserver[w][o])]
           loc == mLocalWatches(mWatches)
       IN  /\ combined' = [combined EXCEPT ![w] = [o \in ObsIds |->
                  IF o \in loc /\ red[o].combine THEN combined[w][o] + 1
                  ELSE combined[w][o]]]
           /\ mRootObserver' = [mRootObserver EXCEPT ![w] = [o \in ObsIds |->
                  IF o \in loc THEN red[o].root ELSE mRootObserver[w][o]]]
           /\ terminated' = (terminated \/
                  \E o \in loc : DestructorTerminates(red[o].root))
    /\ pc' = [pc EXCEPT ![w] = IF pc[w] = "exit" THEN "done" ELSE "failed"]
    /\ UNCHANGED <<exceptTracer, mainPc, mMaxThreads, threadcount, joined, mWatches,
                   endTracingCalls, counterVars, genVars, mMutex, incoming, exc,
                   mActiveWatches, mCurrentTrajectory, mCurrentTrajectoryNum,
                   step, sharedDone, replayPt, lastCall, bookVars>>

WorkerNext(w) ==
    \/ WorkerClone(w)
    \/ AdvanceEnter(w)
    \/ AdvanceGenerate(w)
    \/ StartTrajectory(w)
    \/ Observe(w)
    \/ Step(w)
    \/ SharedBegin(w)
    \/ SharedWatch(w)
    \/ SharedEnd(w)
    \/ FinishLocal(w)
    \/ WorkerExit(w)

Next ==
    \/ SetMaxThreads
    \/ AddObserver
    \/ TraceStart
    \/ TraceJoin
    \/ TraceUnwind
    \/ TraceFinish
    \/ \E w \in Workers : WorkerNext(w)

\* ------------------------------------------------------------------------
\*  unit-level specification of DynamicGridBase: access modes and offsets
\* ------------------------------------------------------------------------
TransformationType == {"IDENTITY", "FFT_INDEX", "PERIODIC"}

\* 2^k modulo E
RECURSIVE TwoPowMod(_, _)
TwoPowMod(k, E) == IF k = 0 THEN 1 % E ELSE (2 * TwoPowMod(k - 1, E)) % E

\* index[i] % extends[i] with an int on the left and a std::size_t on the
\* right: the int is converted to std::size_t first, a negative i becoming
\* 2^SizeBits + i, and the remainder is taken of that unsigned value
UnsignedRem(i, E) ==
    IF i >= 0 THEN i % E ELSE (TwoPowMod(SizeBits, E) + (i % E)) % E

\* offset = offset * extends[i] + component[i], over the axes in order
RECURSIVE Horner(_, _, _, _)
Horner(component, extends, i, offset) ==
    IF i > Len(component) THEN offset
    ELSE Horner(component, extends, i + 1, offset * extends[i] + component[i])

IdentityIndexFn(idx, extends) ==
    Horner([i \in 1..Len(idx) |-> idx[i]], extends, 1, 0)

FFTIndexFn(idx, extends) ==
    Horner([i \in 1..Len(idx) |->
               IF idx[i] < 0 THEN extends[i] + idx[i] ELSE idx[i]], extends, 1, 0)

PeriodicIndexFn(idx, extends) ==
    Horner([i \in 1..Len(idx) |->
               LET mod == UnsignedRem(idx[i], extends[i])
               IN  IF mod < 0 THEN mod + extends[i] ELSE mod], extends, 1, 0)

\* interpolation: GetOffsetOf<D>::index_of
index_of(idx, extends) ==
    Horner([i \in 1..Len(idx) |->
               LET mod == UnsignedRem(idx[i], extends[i])
               IN  IF mod < 0 THEN mod + extends[i] ELSE mod], extends, 1, 0)

\* getIndexFn(trafo, dimension): the index function, named by its mode, or
\* the exception thrown
getIndexFn(trafo, dimension) ==
    IF dimension \in 1..MaxIndexFnDimension
    THEN [err |-> "none", fn |-> trafo]
    ELSE [err |-> "logic_error", fn |-> trafo]

\* call through the function pointer mIndexFunction
CallIndexFn(fn, idx, extends) ==
    CASE fn = "IDENTITY" -> IdentityIndexFn(idx, extends)
      [] fn = "FFT_INDEX" -> FFTIndexFn(idx, extends)
      [] fn = "PERIODIC" -> PeriodicIndexFn(idx, extends)

\* DynamicGridBase::setAccessMode(type)
setAccessMode(g, type) ==
    LET f == getIndexFn(type, g.mDimension)
    IN  IF f.err # "none" THEN [err |-> f.err, g |-> g]
        ELSE [err |-> "none",
              g |-> [g EXCEPT !.mIndexFunction = f.fn, !.mTrafoType = type]]

\* DynamicGridBase(sizes, data, mode)
DynamicGridBase(sizes, mode) ==
    setAccessMode([mDimension |-> Len(sizes), mExtents |-> sizes,
                   mIndexFunction |-> "IDENTITY", mTrafoType |-> "IDENTITY"], mode)

\* shapes handed to the constructor: no axis, the shapes explored, and one
\* with more axes than there are index functions
GridCtorSizes ==
    UNION {[1..d -> 1..MaxExtent] : d \in 0..MaxGridDim}
        \cup {[i \in 1..(MaxIndexFnDimension + 1) |-> 2]}

GridIdxValues == (0 - MaxGridIdx)..MaxGridIdx

\* index components the access mode is documented for: [0, S) for identity
\* access, [-S/2, S/2] for fft access, every integer for periodic access
InModeRange(mode, i, S) ==
    CASE mode = "IDENTITY" -> 0 <= i /\ i < S
      [] mode = "FFT_INDEX" -> 0 - (S \div 2) <= i /\ i <= S \div 2 /\ i < S
      [] mode = "PERIODIC" -> TRUE

\* a constructor that throws leaves no grid
GridInit ==
    /\ \E sizes \in GridCtorSizes, mode \in TransformationType :
          LET r == DynamicGridBase(sizes, mode)
          IN  /\ grid = IF r.err = "none" THEN r.g ELSE NoGrid
              /\ gridErr = r.err
    /\ lookup = NoLookup
    /\ Idle("grid")

GridSetAccessMode ==
    /\ gridErr = "none"
    /\ \E type \in TransformationType :
          LET r == setAccessMode(grid, type)
          IN  /\ grid' = r.g
              /\ gridErr' = r.err
    /\ UNCHANGED <<lookup, exceptGrid>>

\* DynamicGridBase::getOffsetOf(index)
GridGetOffsetOf ==
    /\ gridErr = "none"
    /\ \E idx \in [1..grid.mDimension -> GridIdxValues] :
          /\ \A i \in 1..grid.mDimension :
                InModeRange(grid.mTrafoType, idx[i], grid.mExtents[i])
          /\ lookup' = [by |-> "getOffsetOf", mode |-> grid.mTrafoType,
                        index |-> idx,
                        offset |-> CallIndexFn(grid.mIndexFunction, idx, grid.mExtents)]
    /\ UNCHANGED <<grid, gridErr, exceptGrid>>

\* DynamicGridBase::getOffsetWithMode<GetOffsetOf<D>>(index), as called by
\* linearInterpolate, which asserts periodic access
GridGetOffsetWithMode ==
    /\ gridErr = "none"
    /\ grid.mTrafoType = "PERIODIC"
    /\ \E idx \in [1..grid.mDimension -> GridIdxValues] :
          lookup' = [by |-> "getOffsetWithMode", mode |-> grid.mTrafoType,
                     index |-> idx, offset |-> index_of(idx, grid.mExtents)]
    /\ UNCHANGED <<grid, gridErr, exceptGrid>>

GridNext ==
    \/ GridSetAccessMode
    \/ GridGetOffsetOf
    \/ GridGetOffsetWithMode

\* ------------------------------------------------------------------------
\*  unit-level specification of Potential: the store of derivative grids
\* ------------------------------------------------------------------------
\* shapes of potentials and of grids: 1..MaxPotDim axes of extent 1..MaxPotExtent
Shapes == UNION {[1..d -> 1..MaxPotExtent] : d \in 1..MaxPotDim}

\* a grid as far as the potential looks at it
GridOf(sizes) == [mDimension |-> Len(sizes), mExtents |-> sizes]

\* derivative index vectors handed to setDerivative
DerivValues == (0 - 1)..MaxDeriv
DerivVectors == UNION {[1..d -> DerivValues] : d \in 1..MaxPotDim}

\* Potential(extents, support, strength)
Potential(extents) ==
    [mDimension |-> Len(extents), mExtents |-> extents, mData |-> <<>>]

IndexType(name, deriv) == [name |-> name, derivations |-> deriv]

\* the test on the stored grid made by setDerivative
DataAccepted(p, data) == data.mDimension = p.mDimension

\* Potential::setDerivative(deriv, data, name)
setDerivative(p, deriv, data, name) ==
    IF Len(deriv) # p.mDimension THEN [err |-> "runtime_error", p |-> p]
    ELSE IF ~DataAccepted(p, data) THEN [err |-> "runtime_error", p |-> p]
    ELSE LET key == IndexType(name, deriv)
         IN  [err |-> "none",
              p |-> [p EXCEPT !.mData =
                        [k \in (DOMAIN p.mData) \cup {key} |->
                            IF k = key THEN data ELSE p.mData[k]]]]

\* the loop of readFromFile over the grids of the file; the first
\* setDerivative that throws ends it
RECURSIVE ReadGrids(_, _, _)
ReadGrids(p, grids, j) ==
    IF j > Len(grids) THEN [err |-> "none", p |-> p]
    ELSE LET r == setDerivative(p, grids[j].index, grids[j].grid, grids[j].name)
         IN  IF r.err # "none" THEN r ELSE ReadGrids(r.p, grids, j + 1)

\* Potential::readFromFile(file) for a file with a matching header
readFromFile(file) == ReadGrids(Potential(file.extents), file.grids, 1)

\* contents of potential files: the extents of the potential and, per grid,
\* its name, its derivative index of `dimension` entries, and the grid with
\* the extents its own header gives
PotentialFiles ==
    {[extents |-> e, grids |-> g] :
        e \in Shapes,
        g \in UNION {[1..n -> [name : {"potential"},
                               index : DerivVectors,
                               grid : {GridOf(x) : x \in Shapes}]] :
                        n \in 0..MaxFileGrids}}

PotInit ==
    /\ \E extents \in Shapes : pot = Potential(extents)
    /\ potErr = "none"
    /\ Idle("pot")

\* pot.setDerivative(deriv, data, "potential"); at most MaxStored grids are
\* stored
PotSetDerivative ==
    /\ \E deriv \in DerivVectors, sizes \in Shapes :
          LET r == setDerivative(pot, deriv, GridOf(sizes), "potential")
          IN  /\ Cardinality(DOMAIN r.p.mData) <= MaxStored
              /\ pot' = r.p
              /\ potErr' = r.err
    /\ UNCHANGED exceptPot

\* pot = Potential::readFromFile(file): when it throws nothing is assigned
PotReadFromFile ==
    /\ \E file \in PotentialFiles :
          /\ \A j \in 1..Len(file.grids) :
                Len(file.grids[j].index) = Len(file.extents)
          /\ LET r == readFromFile(file)
             IN  /\ pot' = IF r.err = "none" THEN r.p ELSE pot
                 /\ potErr' = r.err
    /\ UNCHANGED exceptPot

PotNext ==
    \/ PotSetDerivative
    \/ PotReadFromFile

\* ------------------------------------------------------------------------
\*  unit-level specification of ParticleInPotentialDynamics::normalizeEnergy
\* ------------------------------------------------------------------------
\* energies are counted in units of one quantum; the squared speed of a
\* state is 2 * (kinetic energy), NaN once a division by zero produced it
Positions == 1..MaxPositions
Energies == 0..MaxEnergy
Speeds2 == {2 * e : e \in Energies}
NaN == 0 - 1

\* the test `diff < 0` of normalizeEnergy
EnergyUnreachable(diff) == diff < 0

\* normalizeEnergy(state, total_energy): throws, or rescales the velocity to
\* sqrt(2 * diff) by the factor vi / len
normalizeEnergy(potential, state, total_energy) ==
    LET epot == potential[state.position]
        diff == total_energy - epot
    IN  IF EnergyUnreachable(diff)
        THEN [err |-> "runtime_error", state |-> state]
        ELSE [err |-> "none",
              state |-> [state EXCEPT !.speed2 =
                            IF state.speed2 \in {0, NaN} THEN NaN
                            ELSE 2 * diff]]

EnergyInit ==
    /\ mPotential \in [Positions -> Energies]
    /\ \E x \in Positions, v \in Speeds2 : particle = [position |-> x, speed2 |-> v]
    /\ normCall = NoNormCall
    /\ Idle("energy")

\* a new initial condition is written into the state
EnergySetState ==
    /\ \E x \in Positions, v \in Speeds2 :
          particle' = [position |-> x, speed2 |-> v]
    /\ UNCHANGED <<mPotential, normCall, exceptEnergy>>

EnergyNormalize ==
    /\ \E total_energy \in Energies :
          LET r == normalizeEnergy(mPotential, particle, total_energy)
          IN  /\ particle' = r.state
              /\ normCall' = [called |-> TRUE, total_energy |-> total_energy,
                              epot |-> mPotential[particle.position],
                              err |-> r.err]
    /\ UNCHANGED <<mPotential, exceptEnergy>>

EnergyNext ==
    \/ EnergySetState
    \/ EnergyNormalize

\* ------------------------------------------------------------------------
\*  unit-level specification of potgen's randomizePhases
\* ------------------------------------------------------------------------
\* A cell value is followed by its phase, counted in quarter turns modulo 4;
\* multiplying by a factor of modulus one adds the phase of the factor and
\* leaves the modulus of the cell alone.
QuarterTurns == 4

\* phases rnd() is taken to return: a quarter turn or a half turn
Phases == {1, 2}
\* rnd() < 0.5 ? 1 : -1
Signs == {0, 2}

\* std::conj of a factor of modulus one
Conj_same(phase) == phase
Conj(phase) == (QuarterTurns - phase) % QuarterTurns

\* extents of the grids randomised: the first axis of extent 1..MaxRndExtent,
\* a second axis, if any, of extent 2
RandShapes == {<<e>> : e \in 1..MaxRndExtent} \cup {<<e, 2>> : e \in 1..MaxRndExtent}

RECURSIVE Product(_, _)
Product(s, i) == IF i > Len(s) THEN 1 ELSE s[i] * Product(s, i + 1)

\* the loop of fft_indexing over the axes i, i+1, ..
RECURSIVE FftBounds(_, _, _)
FftBounds(mi, grid_size, i) ==
    IF i > Len(grid_size) THEN [err |-> "none", mi |-> mi]
    ELSE IF grid_size[i] % 2 # 0 THEN [err |-> "logic_error", mi |-> mi]
    ELSE LET lo == setLowerBoundAt(mi, i, 0 - (grid_size[i] \div 2)).mi
             up == setUpperBoundAt(lo, i, grid_size[i] \div 2).mi
         IN  FftBounds(up, grid_size, i + 1)

\* fft_indexing(grid)
fft_indexing(grid_size) ==
    LET d == Len(grid_size)
        r == FftBounds(MultiIndex(d, Fill(d, 0), Fill(d, 0), Fill(d, 0), FALSE),
                       grid_size, 1)
    IN  IF r.err # "none" THEN r ELSE init(r.mi)

\* a task as std::async starts it on one sub-index
Task(sub) ==
    [index |-> sub, pc |-> "start", offset |-> 0, iffset |-> 0,
     factor |-> 0, tmp |-> 0, err |-> "none"]

Inverted(mi) == [i \in 1..mi.dim |-> 0 - mi.pos[i]]

RandInit ==
    /\ fieldExtents \in RandShapes
    /\ field = [o \in 0..(Product(fieldExtents, 1) - 1) |-> 0]
    /\ randPc = "idle"
    /\ tasks = <<>>
    /\ Idle("rand")

\* randomizePhases(grid, seed) up to the end of its loop: the index is
\* built, split into thread_count parts and one task is started per part
RandStart ==
    /\ randPc = "idle"
    /\ LET r == fft_indexing(fieldExtents)
       IN  IF r.err # "none"
           THEN randPc' = "threw" /\ tasks' = <<>>
           ELSE \E thread_count \in 1..MaxParts :
                  LET s == split(r.mi, thread_count)
                  IN  IF s.err # "none"
                      THEN randPc' = "threw" /\ tasks' = <<>>
                      ELSE /\ randPc' = "running"
                           /\ tasks' = [t \in 1..Len(s.parts) |-> Task(s.parts[t])]
    /\ UNCHANGED <<field, fieldExtents, exceptRand>>

\* randomize_over_index: the test of the index on entry
RandEnter(t) ==
    /\ tasks[t].pc = "start"
    /\ tasks' = [tasks EXCEPT ![t] =
                    IF ~tasks[t].index.valid
                    THEN [@ EXCEPT !.pc = "done", !.err = "invalid_argument"]
                    ELSE [@ EXCEPT !.pc = "loop"]]
    /\ UNCHANGED <<field, fieldExtents, randPc, exceptRand>>

\* head of the loop: the offsets of the index and of its inverse are
\* computed, and the factor is drawn
RandLoop(t) ==
    /\ tasks[t].pc = "loop"
    /\ LET mi == tasks[t].index
           offset == FFTIndexFn(mi.pos, fieldExtents)
           iffset == FFTIndexFn(Inverted(mi), fieldExtents)
       IN  IF ~mi.valid
           THEN tasks' = [tasks EXCEPT ![t].pc = "done"]
           ELSE IF offset < iffset
           THEN \E phase \in Phases :
                   tasks' = [tasks EXCEPT ![t] =
                       [@ EXCEPT !.pc = "read1", !.offset = offset,
                                 !.iffset = iffset, !.factor = phase]]
           ELSE IF offset = iffset
           THEN \E sign \in Signs :
                   tasks' = [tasks EXCEPT ![t] =
                       [@ EXCEPT !.pc = "read1", !.offset = offset,
                                 !.iffset = iffset, !.factor = sign]]
           ELSE tasks' = [tasks EXCEPT ![t].index = increment(mi)]
    /\ UNCHANGED <<field, fieldExtents, randPc, exceptRand>>

\* grid[offset] *= factor, as a read and a write
RandRead1(t) ==
    /\ tasks[t].pc = "read1"
    /\ tasks' = [tasks EXCEPT ![t] =
                    [@ EXCEPT !.pc = "write1", !.tmp = field[tasks[t].offset]]]
    /\ UNCHANGED <<field, fieldExtents, randPc, exceptRand>>

RandWrite1(t) ==
    /\ tasks[t].pc = "write1"
    /\ field' = [field EXCEPT ![tasks[t].offset] =
                    (tasks[t].tmp + tasks[t].factor) % QuarterTurns]
    /\ tasks' = [tasks EXCEPT ![t] =
                    IF tasks[t].offset = tasks[t].iffset
                    THEN [@ EXCEPT !.pc = "loop", !.index = increment(@)]
                    ELSE [@ EXCEPT !.pc = "read2"]]
    /\ UNCHANGED <<fieldExtents, randPc, exceptRand>>

\* grid[iffset] *= std::conj(factor), as a read and a write
RandRead2(t) ==
    /\ tasks[t].pc = "read2"
    /\ tasks' = [tasks EXCEPT ![t] =
                    [@ EXCEPT !.pc = "write2", !.tmp = field[tasks[t].iffset]]]
    /\ UNCHANGED <<field, fieldExtents, randPc, exceptRand>>

RandWrite2(t) ==
    /\ tasks[t].pc = "write2"
    /\ field' = [field EXCEPT ![tasks[t].iffset] =
                    (tasks[t].tmp + Conj(tasks[t].factor)) % QuarterTurns]
    /\ tasks' = [tasks EXCEPT ![t] =
                    [@ EXCEPT !.pc = "loop", !.index = increment(@)]]
    /\ UNCHANGED <<fieldExtents, randPc, exceptRand>>

\* end of randomizePhases: the destructor of every future waits for its task
RandReturn ==
    /\ randPc = "running"
    /\ \A t \in 1..Len(tasks) : tasks[t].pc = "done"
    /\ randPc' = "returned"
    /\ UNCHANGED <<field, fieldExtents, tasks, exceptRand>>

RandTask(t) ==
    \/ RandEnter(t)
    \/ RandLoop(t)
    \/ RandRead1(t)
    \/ RandWrite1(t)
    \/ RandRead2(t)
    \/ RandWrite2(t)

RandNext ==
    \/ RandStart
    \/ RandReturn
    \/ \E t \in 1..Len(tasks) : RandTask(t)

\* ------------------------------------------------------------------------
\*  unit-level specification of args::ArgumentSet::add_argument
\* ------------------------------------------------------------------------
ArgNames == {"a", "b", "c"}

\* ArgValueCount of an argument that has a value object
ArgValueCount == {"NONE", "SINGLE", "MULTI"}

\* the ArgumentSpec objects handed to add_argument: the constructor makes the
\* name an alias of the argument
ArgumentSpecs ==
    {[name |-> n, aliases |-> {n}, value_count |-> c,
      is_required |-> r, is_positional |-> p] :
        n \in ArgNames, c \in ArgValueCount, r \in BOOLEAN, p \in BOOLEAN}

Range(s) == {s[i] : i \in 1..Len(s)}

\* ArgumentSet::is_argument_name(str): a named argument matches str
is_argument_name(named, str) == \E a \in named : str \in a.aliases

\* add_argument(arg): the exception thrown, "none" if the argument is added
AddThrows(req, opt, named, arg) ==
    IF \E a \in Range(req) \cup Range(opt) \cup named : a.name = arg.name
    THEN "logic_error"
    ELSE IF \E alias \in arg.aliases : is_argument_name(named, alias)
    THEN "logic_error"
    ELSE IF arg.value_count = "NONE" /\ (arg.is_required \/ arg.is_positional)
    THEN "logic_error"
    ELSE IF /\ arg.is_positional
            /\ arg.is_required
            /\ req # <<>>
            /\ req[Len(req)].value_count = "MULTI"
    THEN "logic_error"
    ELSE "none"

\* a multi-valued positional argument has been added to the set
HasMultiPositional(req, opt) ==
    \E a \in Range(req) \cup Range(opt) : a.value_count = "MULTI"

ArgsInit ==
    /\ mRequiredPositionalArguments = <<>>
    /\ mOptionalPositionalArguments = <<>>
    /\ mNamedArguments = {}
    /\ addCall = NoAddCall
    /\ Idle("args")

\* argset << arg
ArgsAddArgument ==
    /\ \E arg \in ArgumentSpecs :
          LET err == AddThrows(mRequiredPositionalArguments,
                               mOptionalPositionalArguments, mNamedArguments, arg)
              added == err = "none"
          IN  /\ mRequiredPositionalArguments' =
                    IF added /\ arg.is_positional /\ arg.is_required
                    THEN Append(mRequiredPositionalArguments, arg)
                    ELSE mRequiredPositionalArguments
              /\ mOptionalPositionalArguments' =
                    IF added /\ arg.is_positional /\ ~arg.is_required
                    THEN Append(mOptionalPositionalArguments, arg)
                    ELSE mOptionalPositionalArguments
              /\ mNamedArguments' =
                    IF added /\ ~arg.is_positional
                    THEN mNamedArguments \cup {arg}
                    ELSE mNamedArguments
              /\ addCall' = [called |-> TRUE, name |-> arg.name,
                             positional |-> arg.is_positional,
                             afterMulti |->
                                 HasMultiPositional(mRequiredPositionalArguments,
                                                    mOptionalPositionalArguments),
                             err |-> err]
    /\ UNCHANGED exceptArgs

ArgsNext == ArgsAddArgument

\* ------------------------------------------------------------------------
\*  unit-level specification of InitialConditionGenerator::init
\* ------------------------------------------------------------------------
\* configurations handed to init: particle count, energy normalisation,
\* whether dynamics are set, sizes of the support and of the offset vector
Configurations ==
    [particles : 0..MaxParticles, normalize : BOOLEAN, dynamics : BOOLEAN,
     support : 1..MaxWorld, offset : 1..MaxWorld]

\* the argument checks of init: TRUE when one of them throws std::logic_error
ConfigRejected(g, config) ==
    \/ config.particles < 1
    \/ config.normalize /\ ~config.dynamics
    \/ config.support # g.mWorldDimension
    \/ config.offset # g.mWorldDimension

\* the generator as init leaves it when an argument check throws
LeftByRejection_stored(g, config) == [g EXCEPT !.mConfig = config]
LeftByRejection(g, config) == g

\* InitialConditionGenerator::init(config)
init_icg(g, config) ==
    IF ConfigRejected(g, config)
    THEN [err |-> "logic_error", g |-> LeftByRejection(g, config)]
    ELSE LET r == initIndex(g.mManifoldIndex, config.particles)
         IN  [err |-> r.err,
              g |-> [g EXCEPT !.mConfig = config, !.mManifoldIndex = r.mi]]

GenInit ==
    /\ \E world \in 1..MaxWorld, manifold \in 1..MaxManifold :
          /\ manifold <= 2 * world
          /\ generator = Generator(world, manifold)
    /\ initCall = NoInitCall
    /\ Idle("gen")

\* generator.init(config)
GenInitCall ==
    /\ \E config \in Configurations :
          LET r == init_icg(generator, config)
          IN  /\ generator' = r.g
              /\ initCall' = [called |-> TRUE, config |-> config, err |-> r.err]
    /\ UNCHANGED exceptGen

\* InitialConditionGenerator::advance on a valid index: the next cell
GenAdvance ==
    /\ generator.mManifoldIndex.valid
    /\ generator' = [generator EXCEPT !.mManifoldIndex = increment(@)]
    /\ UNCHANGED <<initCall, exceptGen>>

GenNext ==
    \/ GenInitCall
    \/ GenAdvance

\* ------------------------------------------------------------------------
\*  unit-level specification of DensityWorker: queue, drainers, reduce
\* ------------------------------------------------------------------------
DensThreads == 1..MaxDensThreads

DensThreadStart ==
    [pc |-> "idle", id |-> 0, free_index |-> 0, trajectory |-> 0, old_count |-> 0]

\* drawTrajectory(grid, *trajectory)
drawTrajectory(grids, g, t) == [grids EXCEPT ![g][t] = @ + 1]

\* DensityWorker::reduce(): the grids are added into the first one, the
\* others and their mutexes are removed
RECURSIVE SumGrids(_, _)
SumGrids(grids, i) ==
    IF i > Len(grids) THEN EmptyGrid
    ELSE [t \in 1..MaxTrajectories |-> grids[i][t] + SumGrids(grids, i + 1)[t]]

reduce_worker(w) ==
    [w EXCEPT !.mDensities = <<SumGrids(w.mDensities, 1)>>,
              !.mWorkMutexes = <<w.mWorkMutexes[1]>>,
              !.mMutexCount = 1]

\* ~DensityWorker(): TRUE when both asserts hold
DestructorAsserts(w) == w.mQueue = <<>> /\ w.mQueueSize = 0

DensInit ==
    /\ worker = DensityWorker
    /\ \E n \in 1..MaxTrajectories, k \in DensThreads :
          /\ k * n <= MaxDensWork
          /\ densThread = [th \in DensThreads |->
                              IF th <= k THEN DensThreadStart
                              ELSE [DensThreadStart EXCEPT !.pc = "ended"]]
          /\ densMain = [pc |-> "tracing", count |-> n, nextId |-> 1]
    /\ Idle("dens")

\* the thread starts its next trajectory, which ends in endTrajectory
DensStartTrajectory(th) ==
    /\ densThread[th].pc = "idle"
    /\ densMain.nextId <= densMain.count
    /\ densThread' = [densThread EXCEPT ![th] =
                         [@ EXCEPT !.pc = "push", !.id = densMain.nextId]]
    /\ densMain' = [densMain EXCEPT !.nextId = @ + 1]
    /\ UNCHANGED <<worker, exceptDens>>

\* no trajectory is left: the thread function returns
DensThreadEnd(th) ==
    /\ densThread[th].pc = "idle"
    /\ densMain.nextId > densMain.count
    /\ densThread' = [densThread EXCEPT ![th].pc = "ended"]
    /\ UNCHANGED <<worker, densMain, exceptDens>>

\* push_trajectory: mQueue.push(new_container); ++mQueueSize; and the test
\* of the queue size against mMaxQueueSize
DensPush(th) ==
    /\ densThread[th].pc = "push"
    /\ worker' = [worker EXCEPT !.mQueue = Append(@, densThread[th].id),
                                !.mQueueSize = @ + 1]
    /\ densThread' = [densThread EXCEPT ![th].pc =
                         IF worker.mQueueSize + 1 > worker.mMaxQueueSize
                         THEN "overflow" ELSE "work"]
    /\ UNCHANGED <<densMain, exceptDens>>

\* checkForDensMem(): FALSE once mCanCreateGrid is false; otherwise the
\* memory in use decides, and a FALSE answer clears mCanCreateGrid
checkForDensMem(w) == IF w.mCanCreateGrid THEN {TRUE, FALSE} ELSE {FALSE}

\* push_trajectory with the queue above its maximum: checkForDensMem, then
\* either mMaxQueueSize is raised ahead of addLocalDensity, or the thread
\* rests until the queue is below the maximum again
DensOverflow(th) ==
    /\ densThread[th].pc = "overflow"
    /\ \E mem \in checkForDensMem(worker) :
          IF mem
          THEN /\ worker' = [worker EXCEPT !.mMaxQueueSize = @ + QueueLimit]
               /\ densThread' = [densThread EXCEPT ![th].pc = "add_read"]
          ELSE /\ worker' = [worker EXCEPT !.mCanCreateGrid = FALSE]
               /\ densThread' = [densThread EXCEPT ![th].pc = "wait"]
    /\ UNCHANGED <<densMain, exceptDens>>

\* addLocalDensity: int old_count = mMutexCount;
DensAddRead(th) ==
    /\ densThread[th].pc = "add_read"
    /\ densThread' = [densThread EXCEPT ![th] =
                         [@ EXCEPT !.pc = "add_lock",
                                   !.old_count = worker.mMutexCount]]
    /\ UNCHANGED <<worker, densMain, exceptDens>>

\* addLocalDensity: std::lock_guard<std::mutex> lock(mAddDensityMutex);
DensAddLock(th) ==
    /\ densThread[th].pc = "add_lock"
    /\ worker.mAddDensityMutex = 0
    /\ worker' = [worker EXCEPT !.mAddDensityMutex = th]
    /\ densThread' = [densThread EXCEPT ![th].pc = "add_check"]
    /\ UNCHANGED <<densMain, exceptDens>>

\* addLocalDensity under the lock: the silent return when memory is short or
\* another thread has added a grid since old_count was read (the maximum
\* stays raised); std::bad_alloc from push_back, caught in push_trajectory,
\* which sets the maximum back; or the new grid and its mutex are created
DensAddCheck(th) ==
    /\ densThread[th].pc = "add_check"
    /\ \E mem \in checkForDensMem(worker) :
          IF ~mem
          THEN /\ worker' = [worker EXCEPT !.mCanCreateGrid = FALSE,
                                           !.mAddDensityMutex = 0]
               /\ densThread' = [densThread EXCEPT ![th].pc = "work"]
          ELSE IF worker.mMutexCount # densThread[th].old_count
          THEN /\ worker' = [worker EXCEPT !.mAddDensityMutex = 0]
               /\ densThread' = [densThread EXCEPT ![th].pc = "work"]
          ELSE \/ /\ worker' = [worker EXCEPT
                                   !.mCanCreateGrid = FALSE,
                                   !.mMaxQueueSize = @ - QueueLimit,
                                   !.mAddDensityMutex = 0]
                  /\ densThread' = [densThread EXCEPT ![th].pc = "work"]
               \/ /\ Len(worker.mDensities) < MaxGrids
                  /\ worker' = [worker EXCEPT
                                   !.mDensities = Append(@, EmptyGrid),
                                   !.mWorkMutexes = Append(@, 0)]
                  /\ densThread' = [densThread EXCEPT ![th].pc = "add_count"]
    /\ UNCHANGED <<densMain, exceptDens>>

\* addLocalDensity: ++mMutexCount;
DensAddCount(th) ==
    /\ densThread[th].pc = "add_count"
    /\ worker' = [worker EXCEPT !.mMutexCount = @ + 1]
    /\ densThread' = [densThread EXCEPT ![th].pc = "add_free"]
    /\ UNCHANGED <<densMain, exceptDens>>

\* addLocalDensity: ++mFreeGrids; and the return, which unlocks
DensAddFree(th) ==
    /\ densThread[th].pc = "add_free"
    /\ worker' = [worker EXCEPT !.mFreeGrids = @ + 1,
                                !.mAddDensityMutex = 0]
    /\ densThread' = [densThread EXCEPT ![th].pc = "work"]
    /\ UNCHANGED <<densMain, exceptDens>>

\* while( mQueueSize >= mMaxQueueSize ) sleep
DensWait(th) ==
    /\ densThread[th].pc = "wait"
    /\ worker.mQueueSize < worker.mMaxQueueSize
    /\ densThread' = [densThread EXCEPT ![th].pc = "work"]
    /\ UNCHANGED <<worker, densMain, exceptDens>>

\* work(): if(mFreeGrids == 0) return;
DensWork(th) ==
    /\ densThread[th].pc = "work"
    /\ densThread' = [densThread EXCEPT ![th] =
                         IF worker.mFreeGrids = 0
                         THEN [@ EXCEPT !.pc = "idle"]
                         ELSE [@ EXCEPT !.pc = "trylock", !.free_index = 0]]
    /\ UNCHANGED <<worker, densMain, exceptDens>>

\* a try_to_lock that takes the mutex whoever holds it
owns_lock_always(w, free_index) == TRUE

\* std::unique_lock<std::mutex> lock(mWorkMutexes[free_index], std::try_to_lock):
\* owns_lock() when no thread holds the mutex
owns_lock(w, free_index) == w.mWorkMutexes[free_index + 1] = 0

\* one round of the loop over the mutexes: try_to_lock, --mFreeGrids
DensTryLock(th) ==
    /\ densThread[th].pc = "trylock"
    /\ LET i == densThread[th].free_index
       IN  IF i >= worker.mMutexCount
           THEN /\ densThread' = [densThread EXCEPT ![th].pc = "idle"]
                /\ UNCHANGED worker
           ELSE IF ~owns_lock(worker, i)
           THEN /\ densThread' = [densThread EXCEPT ![th].free_index = i + 1]
                /\ UNCHANGED worker
           ELSE /\ worker' = [worker EXCEPT !.mWorkMutexes[i + 1] = th,
                                            !.mFreeGrids = @ - 1]
                /\ densThread' = [densThread EXCEPT ![th].pc = "pop"]
    /\ UNCHANGED <<densMain, exceptDens>>

\* while( mQueue.pop(trajectory) ) { --mQueueSize;
DensPop(th) ==
    /\ densThread[th].pc = "pop"
    /\ IF worker.mQueue = <<>>
       THEN /\ densThread' = [densThread EXCEPT ![th].pc = "release"]
            /\ UNCHANGED worker
       ELSE /\ worker' = [worker EXCEPT !.mQueue = Tail(@), !.mQueueSize = @ - 1]
            /\ densThread' = [densThread EXCEPT ![th] =
                                 [@ EXCEPT !.pc = "draw",
                                           !.trajectory = Head(worker.mQueue)]]
    /\ UNCHANGED <<densMain, exceptDens>>

\* drawTrajectory( grid, *trajectory ); the container goes to the reuse pool
DensDraw(th) ==
    /\ densThread[th].pc = "draw"
    /\ worker' = [worker EXCEPT !.mDensities =
                     drawTrajectory(@, densThread[th].free_index + 1,
                                    densThread[th].trajectory)]
    /\ densThread' = [densThread EXCEPT ![th] =
                         [@ EXCEPT !.pc = "pop", !.trajectory = 0]]
    /\ UNCHANGED <<densMain, exceptDens>>

\* ++mFreeGrids; return; (the lock is released)
DensRelease(th) ==
    /\ densThread[th].pc = "release"
    /\ worker' = [worker EXCEPT
                     !.mWorkMutexes[densThread[th].free_index + 1] = 0,
                     !.mFreeGrids = @ + 1]
    /\ densThread' = [densThread EXCEPT ![th].pc = "idle"]
    /\ UNCHANGED <<densMain, exceptDens>>

\* DensityObserver::endTracing after every thread has ended: reduce()
DensEndTracing ==
    /\ densMain.pc = "tracing"
    /\ \A th \in DensThreads : densThread[th].pc = "ended"
    /\ worker' = reduce_worker(worker)
    /\ densMain' = [densMain EXCEPT !.pc = "reduced"]
    /\ UNCHANGED <<densThread, exceptDens>>

\* ~DensityWorker(): with a trajectory left in the queue the assert fails
DensDestroy ==
    /\ densMain.pc = "reduced"
    /\ densMain' = [densMain EXCEPT !.pc =
                       IF DestructorAsserts(worker) THEN "destroyed" ELSE "assert_failed"]
    /\ UNCHANGED <<worker, densThread, exceptDens>>

DensThreadNext(th) ==
    \/ DensStartTrajectory(th)
    \/ DensThreadEnd(th)
    \/ DensPush(th)
    \/ DensOverflow(th)
    \/ DensAddRead(th)
    \/ DensAddLock(th)
    \/ DensAddCheck(th)
    \/ DensAddCount(th)
    \/ DensAddFree(th)
    \/ DensWait(th)
    \/ DensWork(th)
    \/ DensTryLock(th)
    \/ DensPop(th)
    \/ DensDraw(th)
    \/ DensRelease(th)

DensNext ==
    \/ DensEndTracing
    \/ DensDestroy
    \/ \E th \in DensThreads : DensThreadNext(th)

\* ========================================================================
\*  MasterObserver callback and CausticObserver (tracer/observers/)
\* ========================================================================
\* signs the signed area of a sample can have
Areas == {0 - 1, 0, 1}

ObsKinds == {"energy", "local", "shared", "caustic"}

\* observer lists of the master observer, with at most one CausticObserver
ObsWatchLists ==
    {ws \in UNION {[1..n -> ObsKinds] : n \in 0..MaxObsWatches} :
        Cardinality({o \in 1..Len(ws) : ws[o] = "caustic"}) <= 1}

HasCaustic(ws) == \E o \in 1..Len(ws) : ws[o] = "caustic"

\* CausticObserver::startTrajectory
CausticStartTrajectory(c, trajectory) ==
    [c EXCEPT !.mOldArea = 0, !.mCausticCount = 0, !.mParticleNumber = trajectory]

\* the test of CausticObserver::watch for a sign change
SignChange(signed_area, mOldArea, t) ==
    t > 0 /\ (signed_area * mOldArea < 0 \/ signed_area = 0)

\* a watch that goes on after a caustic whatever mBreakOnFirst says
CausticBreaks_never(c) == FALSE

\* if( mBreakOnFirst ) return false;
CausticBreaks(c) == c.mBreakOnFirst

\* CausticObserver::watch: the observer after the call and the value returned
CausticWatch(c, signed_area, t) ==
    IF SignChange(signed_area, c.mOldArea, t)
    THEN LET found == [c EXCEPT
                          !.mCausticCount = @ + 1,
                          !.mCausticPositions =
                              Append(@, [trajectory |-> c.mParticleNumber,
                                         index |-> c.mCausticCount + 1])]
         IN  IF CausticBreaks(c)
             THEN [observer |-> found, ret |-> FALSE]
             ELSE [observer |-> [found EXCEPT !.mOldArea = signed_area], ret |-> TRUE]
    ELSE [observer |-> [c EXCEPT !.mOldArea = signed_area], ret |-> TRUE]

\* a startTrajectory that leaves the flags as the last trajectory left them
ActivateAll_keep(m) == m.mActiveWatches

\* MasterObserver::startTrajectory: for(auto& value : mActiveWatches) value = true;
ActivateAll(m) == [o \in 1..Len(m.mWatches) |-> o \in mLocalWatches(m.mWatches)]

\* a callback that does not look at the shared observers
StillWatching_localOnly(m, called, ret) == \E o \in called : ret[o]

\* MasterObserver::operator(): still_watching after the loop over the local
\* observers that were called
StillWatching(m, called, ret) ==
    \/ mSharedWatches(m.mWatches) # <<>>
    \/ \E o \in called : ret[o]

ObsInit ==
    /\ \E ws \in ObsWatchLists, b \in BOOLEAN, n \in 1..MaxObsSamples :
          /\ b => HasCaustic(ws)
          /\ obs = MasterObserverClone(ws)
          /\ caustic = CausticObserver(b)
          /\ obsCtl = [pc |-> "idle", t |-> 0, started |-> 0, samples |-> n]
    /\ obsLog = <<>>
    /\ Idle("obs")

\* MasterObserver::startTrajectory, with startTrajectory of the local observers
ObsStartTrajectory ==
    /\ obsCtl.pc = "idle"
    /\ obsCtl.started < MaxObsTrajectories
    /\ LET id == obsCtl.started + 1
       IN  /\ obs' = [obs EXCEPT !.mCurrentTrajectoryNum = id,
                                 !.mActiveWatches = ActivateAll(obs),
                                 !.mCurrentTrajectory = 0]
           /\ caustic' = IF HasCaustic(obs.mWatches)
                         THEN CausticStartTrajectory(caustic, id) ELSE caustic
           /\ obsLog' = Append(obsLog, [ev |-> "start", id |-> id])
           /\ obsCtl' = [obsCtl EXCEPT !.pc = "sample", !.t = 0, !.started = id]
    /\ UNCHANGED exceptObs

\* MasterObserver::operator() called by integrate_const with the sample of
\* time t: the active local observers watch; throw(1) when nobody is left
ObsSample ==
    /\ obsCtl.pc = "sample"
    /\ \E signed_area \in Areas, r \in [1..Len(obs.mWatches) -> BOOLEAN] :
         LET ws == obs.mWatches
             called == {o \in mLocalWatches(ws) : obs.mActiveWatches[o]}
             seen == \E o \in called : ws[o] = "caustic"
             cw == CausticWatch(caustic, signed_area, obsCtl.t)
             ret == [o \in 1..Len(ws) |->
                        IF o \notin called THEN FALSE
                        ELSE IF ws[o] = "caustic" THEN cw.ret ELSE r[o]]
             thrown == ~StillWatching(obs, called, ret)
             after == IF seen THEN cw.observer ELSE caustic
             last == thrown \/ obsCtl.t + 1 = obsCtl.samples
         IN  /\ \A o \in 1..Len(ws) :
                    IF o \in called /\ ws[o] # "caustic"
                    THEN r[o] \in WatchResults(ws[o]) ELSE r[o] = FALSE
             /\ ~seen => signed_area = 0
             /\ obs' = [obs EXCEPT
                           !.mCurrentTrajectory = @ + 1,
                           !.mActiveWatches =
                               [o \in 1..Len(ws) |-> obs.mActiveWatches[o] /\ ret[o]]]
             /\ caustic' = after
             /\ obsLog' = Append(obsLog,
                    [ev |-> "sample", t |-> obsCtl.t, area |-> signed_area,
                     called |-> called, kept |-> {o \in called : ret[o]},
                     thrown |-> thrown,
                     caustics |-> Len(after.mCausticPositions)])
             /\ obsCtl' = [obsCtl EXCEPT !.pc = IF last THEN "finish" ELSE "sample",
                                         !.t = IF last THEN @ ELSE @ + 1]
    /\ UNCHANGED exceptObs

\* MasterObserver::finishTrajectory, after integrate_const has returned or
\* the int thrown by the callback was caught
ObsFinishTrajectory ==
    /\ obsCtl.pc = "finish"
    /\ obsLog' = Append(obsLog, [ev |-> "end"])
    /\ obsCtl' = [obsCtl EXCEPT !.pc = "idle"]
    /\ UNCHANGED <<obs, caustic, exceptObs>>

ObsNext ==
    \/ ObsStartTrajectory
    \/ ObsSample
    \/ ObsFinishTrajectory

\* ------------------------------------------------------------------------
\*  unit-level specification of the iteration of InitialConditionGenerator
\* ------------------------------------------------------------------------
\* a manifold coordinate (idx + .5) / upper as the fraction <<2 idx + 1, 2 upper>>
Coordinate(idx, upper) == <<2 * idx + 1, 2 * upper>>

\* MultiIndex::setUpperBoundDynamic
setUpperBoundDynamic(mi, d, ub) ==
    IF mi.lower[d] >= ub \/ ub <= mi.pos[d]
    THEN [err |-> "logic_error", mi |-> mi]
    ELSE [err |-> "none", mi |-> [mi EXCEPT !.upper[d] = ub]]

\* RadialWave3D::init_generator: the polar axis gets its range, the azimuth 1
init_generator_radial(mi, range) ==
    LET a == setUpperBoundAt(mi, 1, range)
    IN  IF a.err = "none" THEN setUpperBoundAt(a.mi, 2, 1) ELSE a

\* InitialConditionGenerator::updateManifoldPosition
updateManifoldPosition(g) ==
    [g EXCEPT !.mManifoldPosition =
        [i \in 1..g.mManifoldDimension |->
            Coordinate(g.mManifoldIndex.pos[i], g.mManifoldIndex.upper[i])]]

\* ceil(circumference / mStepSize) of RadialWave3D::next_trajectory: a
\* function of pos[0], the coordinate of the row
RowCells(g, pos) == g.rows[(pos[1][1] - 1) \div 2 + 1]

\* next_trajectory(mManifoldPosition, mManifoldIndex): empty but for
\* radial_3d, which sets the upper bound of the azimuth at each row start
next_trajectory(g) ==
    IF g.kind = "radial_3d" /\ g.mManifoldIndex.pos[g.mManifoldDimension] = 0
    THEN [g EXCEPT !.mManifoldIndex =
             setUpperBoundDynamic(@, 2, RowCells(g, g.mManifoldPosition)).mi]
    ELSE g

\* InitialConditionGenerator::init past its argument checks
init_position(g) ==
    LET a == setLowerBound(g.mManifoldIndex, 0)
        b == IF a.err # "none" THEN a
             ELSE IF g.kind = "radial_3d"
                  THEN init_generator_radial(a.mi, Len(g.rows))
                  ELSE init_generator(a.mi, g.particles)
        c == IF b.err = "none" THEN init(b.mi) ELSE b
    IN  IF c.err = "none"
        THEN updateManifoldPosition([g EXCEPT !.mManifoldIndex = c.mi,
                                              !.initialised = TRUE])
        ELSE g

\* InitialConditionGenerator::advance on a valid index: the generator after
\* the call and the initial condition it has filled
advance(g) ==
    LET a == next_trajectory(g)
        b == [a EXCEPT !.mManifoldIndex = increment(@)]
    IN  [g |-> IF b.mManifoldIndex.valid THEN updateManifoldPosition(b) ELSE b,
         ic |-> [mIsValid |-> TRUE,
                 mManifoldIndex |-> a.mManifoldIndex.pos,
                 mManifoldCoordinates |-> a.mManifoldPosition,
                 upper |-> a.mManifoldIndex.upper]]

ManiInit ==
    /\ \/ \E m \in 1..MaxManifold, N \in 1..MaxParticles :
             icg = ManifoldGenerator("default", m, N, <<>>)
       \/ \E range \in 1..MaxRows :
             \E rows \in [1..range -> 1..MaxRowBound] :
                 icg = ManifoldGenerator("radial_3d", 2, 1, rows)
    /\ newCondition = NoInitialCondition
    /\ Idle("mani")

\* generator.init(config) with a configuration it accepts
ManiInitCall ==
    /\ ~icg.initialised
    /\ icg' = init_position(icg)
    /\ UNCHANGED <<newCondition, exceptMani>>

\* InitialConditionGenerator::advance
ManiAdvance ==
    /\ icg.initialised
    /\ newCondition = NoInitialCondition \/ newCondition.mIsValid
    /\ IF icg.mManifoldIndex.valid
       THEN /\ icg' = advance(icg).g
            /\ newCondition' = advance(icg).ic
       ELSE /\ newCondition' = [newCondition EXCEPT !.mIsValid = FALSE]
            /\ icg' = icg
    /\ UNCHANGED exceptMani

ManiNext ==
    \/ ManiInitCall
    \/ ManiAdvance

\* ------------------------------------------------------------------------
\*  unit-level specification of ArgumentSet::parse_token_vector
\* ------------------------------------------------------------------------
\* the command-line tokens: aliases of the named arguments, a numeral and a
\* word that is no number
Tokens == {"b", "f", "v", "1", "x"}

TokenVectors == UNION {[1..n -> Tokens] : n \in 0..MaxTokens}

\* an ArgumentSpec whose value was set by store ("single"), store_constant
\* ("constant"), store_many on a std::vector ("sequence") or store_many on a
\* gen_vect ("gen_vect")
StoredSpec(name, value_count, is_required, is_positional, store) ==
    [name |-> name, aliases |-> {name}, value_count |-> value_count,
     is_required |-> is_required, is_positional |-> is_positional,
     store |-> store]

\* the argument sets parsed: an optional first positional a, the named
\* arguments b (a number), f (a flag) and v (a gen_vect), and an optional
\* multi-valued positional c
ArgumentSets ==
    {[required |-> IF hasA
                   THEN <<StoredSpec("a", "SINGLE", TRUE, TRUE, "single")>>
                   ELSE <<>>,
      optional |-> IF hasC
                   THEN <<StoredSpec("c", "MULTI", FALSE, TRUE, "sequence")>>
                   ELSE <<>>,
      named |-> {StoredSpec("b", "SINGLE", bRequired, FALSE, "single"),
                 StoredSpec("f", "NONE", FALSE, FALSE, "constant"),
                 StoredSpec("v", "MULTI", FALSE, FALSE, "gen_vect")}] :
        hasA \in BOOLEAN, hasC \in BOOLEAN, bRequired \in BOOLEAN}

\* boost::lexical_cast of a token to a numeric type succeeds
IsNumber(token) == token = "1"

\* detail::parse_value<T>(token) of a token that is a number
parse_value(token) == IF token = "1" THEN 1 ELSE 0

\* a HandlerFunction: what the closure does when it is called
Handler(op, name, value) == [op |-> op, name |-> name, value |-> value]

\* ArgumentValue::getFoundHandler()
getFoundHandler(arg) ==
    CASE arg.store = "single" -> Handler("nothing", arg.name, 0)
      [] arg.store = "constant" -> Handler("assign", arg.name, TRUE)
      [] arg.store = "sequence" -> Handler("clear", arg.name, 0)
      [] arg.store = "gen_vect" -> Handler("clear_cache", arg.name, 0)

\* ArgumentValue::parseValue(token): the closure the parser returns for a
\* token that is a number
parseValue(arg, token) ==
    CASE arg.store = "single" -> Handler("assign", arg.name, parse_value(token))
      [] arg.store = "sequence" ->
            Handler("emplace_back", arg.name, parse_value(token))
      [] arg.store = "gen_vect" ->
            Handler("cache_emplace_back", arg.name, parse_value(token))

\* ArgumentValue::getFinalizer()
getFinalizer(arg) ==
    IF arg.store = "gen_vect"
    THEN Handler("finalizer", arg.name, 0)
    ELSE Handler("nothing", arg.name, 0)

\* parse_single_token_argument: ret is its return value
parse_single_token_argument(arg, tokens, st) ==
    IF st.first <= Len(tokens)
    THEN IF IsNumber(tokens[st.first])
         THEN [st EXCEPT !.handlers = Append(@, parseValue(arg, tokens[st.first])),
                         !.first = @ + 1,
                         !.ret = TRUE]
         ELSE [st EXCEPT !.err = "bad_lexical_cast"]
    ELSE [st EXCEPT !.ret = FALSE]

\* parse_multi_token_argument
RECURSIVE parse_multi_token_argument(_, _, _, _)
parse_multi_token_argument(arg, named, tokens, st) ==
    IF st.first > Len(tokens) \/ is_argument_name(named, tokens[st.first])
    THEN st
    ELSE IF ~IsNumber(tokens[st.first])
    THEN [st EXCEPT !.err = "bad_lexical_cast"]
    ELSE parse_multi_token_argument(arg, named, tokens,
            [st EXCEPT !.handlers = Append(@, parseValue(arg, tokens[st.first])),
                       !.first = @ + 1])

\* ArgumentSet::parse_argument
parse_argument(arg, named, tokens, st) ==
    LET found == [st EXCEPT !.handlers = Append(@, getFoundHandler(arg))]
        single == parse_single_token_argument(arg, tokens, found)
        parsed ==
            IF arg.value_count = "SINGLE"
            THEN IF single.err = "none" /\ ~single.ret
                 THEN [single EXCEPT !.err = IF arg.is_positional
                                             THEN "missing_argument_error"
                                             ELSE "missing_value_error"]
                 ELSE single
            ELSE IF arg.value_count = "MULTI"
            THEN parse_multi_token_argument(arg, named, tokens, found)
            ELSE found
    IN  IF parsed.err # "none"
        THEN parsed
        ELSE [parsed EXCEPT !.handlers = Append(@, getFinalizer(arg))]

\* parse_token_vector, the loop over mRequiredPositionalArguments
RECURSIVE ParseRequired(_, _, _, _)
ParseRequired(set, tokens, i, st) ==
    IF i > Len(set.required) \/ st.err # "none"
    THEN st
    ELSE ParseRequired(set, tokens, i + 1,
                       parse_argument(set.required[i], set.named, tokens, st))

\* parse_token_vector, the loop that uses up the remaining tokens
RECURSIVE ParseRemaining(_, _, _)
ParseRemaining(set, tokens, st) ==
    IF st.err # "none" \/ st.first > Len(tokens)
    THEN st
    ELSE LET matches == {arg \in set.named : tokens[st.first] \in arg.aliases}
         IN  IF matches = {}
             THEN IF st.optional_positional > Len(set.optional)
                  THEN [st EXCEPT !.err = "runtime_error"]
                  ELSE ParseRemaining(set, tokens,
                          [parse_argument(set.optional[st.optional_positional],
                                          set.named, tokens, st)
                              EXCEPT !.optional_positional = @ + 1])
             ELSE LET match == CHOOSE arg \in matches : TRUE
                  IN  IF match.name \in st.handled_named_args
                      THEN [st EXCEPT !.err = "duplicate_argument_error"]
                      ELSE ParseRemaining(set, tokens,
                              parse_argument(match, set.named, tokens,
                                  [st EXCEPT !.handled_named_args =
                                                 @ \cup {match.name},
                                             !.first = @ + 1]))

\* parse_token_vector up to the check of the required named arguments: the
\* success_actions gathered, or the exception thrown before any of them ran
GatherActions(set, tokens) ==
    LET start == [first |-> 1, handlers |-> <<>>, err |-> "none", ret |-> TRUE,
                  handled_named_args |-> {}, optional_positional |-> 1]
        st == ParseRemaining(set, tokens, ParseRequired(set, tokens, 1, start))
    IN  IF st.err # "none"
        THEN st
        ELSE IF \E arg \in set.named :
                    arg.is_required /\ arg.name \notin st.handled_named_args
        THEN [st EXCEPT !.err = "missing_argument_error"]
        ELSE st

\* handler(): the closure acts on the targets and on the cache, or throws
RunHandler(h, env) ==
    CASE h.op = "nothing" -> env
      [] h.op = "assign" -> [env EXCEPT !.targets[h.name] = h.value]
      [] h.op = "clear" -> [env EXCEPT !.targets[h.name] = <<>>]
      [] h.op = "emplace_back" ->
            [env EXCEPT !.targets[h.name] = Append(@, h.value)]
      [] h.op = "clear_cache" -> [env EXCEPT !.cache = <<>>]
      [] h.op = "cache_emplace_back" ->
            [env EXCEPT !.cache = Append(@, h.value)]
      [] h.op = "finalizer" ->
            IF env.cache = <<>>
            THEN [env EXCEPT !.err = "invalid_argument"]
            ELSE IF Len(env.cache) > GenVectSize
            THEN [env EXCEPT !.err = "invalid_argument"]
            ELSE [env EXCEPT !.targets[h.name] = env.cache]

\* parse_token_vector, the loop over success_actions: an exception ends it
RECURSIVE RunHandlers(_, _, _)
RunHandlers(handlers, i, env) ==
    IF i > Len(handlers) \/ env.err # "none"
    THEN env
    ELSE RunHandlers(handlers, i + 1, RunHandler(handlers[i], env))

\* ArgumentSet::parse_token_vector(tokens)
parse_token_vector(set, tokens, tg, ch) ==
    LET st == GatherActions(set, tokens)
    IN  IF st.err # "none"
        THEN [targets |-> tg, cache |-> ch, err |-> st.err]
        ELSE RunHandlers(st.handlers, 1,
                         [targets |-> tg, cache |-> ch, err |-> "none"])

ParseInit ==
    /\ argset \in ArgumentSets
    /\ targets = FreshTargets
    /\ cache = <<>>
    /\ parseCall = NoParseCall
    /\ Idle("parse")

\* argset.parse_token_vector(tokens)
ParseTokenVector ==
    /\ parseCall.count < MaxParses
    /\ \E tokens \in TokenVectors :
          LET r == parse_token_vector(argset, tokens, targets, cache)
          IN  /\ targets' = r.targets
              /\ cache' = r.cache
              /\ parseCall' = [count |-> parseCall.count + 1,
                               before |-> targets, err |-> r.err]
    /\ UNCHANGED <<argset, exceptParse>>

ParseNext == ParseTokenVector

vars == <<indexVars, tracerVars, gridVars, potVars, energyVars, randVars, argsVars, icgVars, densVars, obsVars, maniVars, parseVars>>

Spec == Init /\ [][Next]_vars

SpecIndex == IndexInit /\ [][IndexNext]_vars

SpecGrid == GridInit /\ [][GridNext]_vars

SpecPot == PotInit /\ [][PotNext]_vars

SpecEnergy == EnergyInit /\ [][EnergyNext]_vars

SpecRand == RandInit /\ [][RandNext]_vars

SpecArgs == ArgsInit /\ [][ArgsNext]_vars

SpecGen == GenInit /\ [][GenNext]_vars

SpecDens == DensInit /\ [][DensNext]_vars

SpecObs == ObsInit /\ [][ObsNext]_vars

SpecMani == ManiInit /\ [][ManiNext]_vars

SpecParse == ParseInit /\ [][ParseNext]_vars

\* every integration thread is scheduled again and again, and so is the
\* main thread once the workers have ended
SpecDensFair ==
    /\ DensInit
    /\ [][DensNext]_vars
    /\ \A th \in DensThreads : WF_vars(DensThreadNext(th))
    /\ WF_vars(DensEndTracing)
    /\ WF_vars(DensDestroy)

\* ========================================================================
\*  Properties of MultiIndex
\* ========================================================================

\* the index tuples of the box [lower, upper) of a multi-index
Box(mi) ==
    LET axis == UNION {mi.lower[i]..(mi.upper[i] - 1) : i \in 1..mi.dim}
    IN  {p \in [1..mi.dim -> axis] :
            \A i \in 1..mi.dim : mi.lower[i] <= p[i] /\ p[i] < mi.upper[i]}

RECURSIVE BoxSizeFrom(_, _)
BoxSizeFrom(mi, i) ==
    IF i > mi.dim THEN 1
    ELSE (mi.upper[i] - mi.lower[i]) * BoxSizeFrom(mi, i + 1)

\* number of tuples of the box (all extents positive)
BoxSize(mi) == BoxSizeFrom(mi, 1)

\* row-major rank of the current position: the last axis counts fastest
RECURSIVE RankFrom(_, _)
RankFrom(mi, i) ==
    IF i > mi.dim THEN 0
    ELSE (mi.pos[i] - mi.lower[i]) * BoxSizeFrom(mi, i + 1) + RankFrom(mi, i + 1)

Rank(mi) == RankFrom(mi, 1)

\* C9: after init(), the position reached by k increments is the tuple of
\* row-major rank k of the box [lower, upper) (so every tuple is visited
\* exactly once, last axis fastest, carrying into earlier axes); the index
\* stays valid while tuples remain and turns invalid in the increment taken
\* at the last tuple, where the first axis would pass its upper bound.
C9_IncrementRowMajor ==
    [][/\ index'.valid =>
            /\ index'.pos \in Box(index')
            /\ Rank(index') = indexSteps'
            /\ indexSteps' < BoxSize(index')
       /\ (index.valid /\ index' # index) =>
            /\ index'.lower = index.lower /\ index'.upper = index.upper
            /\ (~index'.valid) <=>
                 (\A i \in 1..index.dim : index.pos[i] = index.upper[i] - 1)
            /\ (~index'.valid) => indexSteps' = BoxSize(index)]_vars

\* C9 witness: a two-axis box with non-zero lower bounds was walked to its
\* end, with carries into the first axis, and the index turned invalid
C9_Witness ==
    /\ ~index.valid
    /\ index.dim = 2
    /\ index.lower = <<-1, -1>>
    /\ index.upper = <<1, 2>>
    /\ indexSteps = BoxSize(index)
    /\ indexSteps = 6

\* C10: split(n) returns at most n sub-indices that have the dimension and
\* the inner-axis bounds of the original, whose boxes are pairwise disjoint
\* and together are exactly the box of the original.
C10_SplitPartitions ==
    (splitArg > 0 /\ indexErr = "none") =>
        /\ Len(subIndices) <= splitArg
        /\ \A k \in 1..Len(subIndices) :
              /\ subIndices[k].dim = splitSrc.dim
              /\ \A i \in 2..splitSrc.dim :
                    /\ subIndices[k].lower[i] = splitSrc.lower[i]
                    /\ subIndices[k].upper[i] = splitSrc.upper[i]
        /\ \A k, l \in 1..Len(subIndices) :
              k # l => Box(subIndices[k]) \cap Box(subIndices[l]) = {}
        /\ UNION {Box(subIndices[k]) : k \in 1..Len(subIndices)} = Box(splitSrc)

\* C10 witness: a two-axis index whose outermost axis has a single value was
\* split into two and gave one part, the second being empty and left out
C10_Witness ==
    /\ splitArg = 2
    /\ indexErr = "none"
    /\ splitSrc.dim = 2
    /\ splitSrc.upper[1] - splitSrc.lower[1] = 1
    /\ splitSrc.upper[2] - splitSrc.lower[2] = 3
    /\ Len(subIndices) = 1

\* a range of three on the outermost axis split into two non-empty parts
C10_WitnessTwoParts ==
    /\ splitArg = 2
    /\ indexErr = "none"
    /\ splitSrc.upper[1] - splitSrc.lower[1] = 3
    /\ Len(subIndices) = 2

\* ========================================================================
\*  Properties of a trace run
\* ========================================================================

\* C1: the workers pulling initial conditions from the one generator never
\* get a manifold index twice and only indices of the box [0, bound)^m; once
\* the generator is exhausted, every index of the box was handed out exactly
\* once.
C1_EachCellOnce ==
    /\ \A c \in DOMAIN handed : handed[c] = 1 /\ c \in Box(mManifoldIndex)
    /\ (mainPc # "idle" /\ ~mManifoldIndex.valid) =>
            DOMAIN handed = Box(mManifoldIndex)

\* C1 witness: two workers have emptied a 2 x 2 box and each of them traced
\* at least one of its cells
C1_Witness ==
    /\ threadcount = 2
    /\ pc[1] = "done" /\ pc[2] = "done"
    /\ mManifoldDimension = 2
    /\ Cardinality(DOMAIN handed) = 4
    /\ mCurrentTrajectoryNum[1] > 0 /\ mCurrentTrajectoryNum[2] > 0

\* C2: std::terminate is never reached; a clone is combined into its root at
\* most once and only while attached; when its worker has ended, by return
\* or by exception, every clone was combined exactly once and is detached;
\* a second reduce() of a clone combines nothing.
C2_ClonesMergedOnce ==
    /\ ~terminated
    /\ \A w \in Workers, o \in ObsIds :
          /\ combined[w][o] <= 1
          /\ mRootObserver[w][o] => combined[w][o] = 0
          /\ (pc[w] \in {"done", "failed"} /\ o \in mLocalWatches(mWatches)) =>
                combined[w][o] = 1 /\ ~mRootObserver[w][o]
          /\ ~reduce(reduce(mRootObserver[w][o]).root).combine

\* C2 witness: one worker returned, the other ended by an exception, and the
\* clones of both observers of both workers were merged
C2_Witness ==
    /\ pc[1] = "done" /\ pc[2] = "failed"
    /\ mWatches = <<"energy", "local">>
    /\ \A w \in {1, 2}, o \in {1, 2} : combined[w][o] = 1 /\ ~mRootObserver[w][o]
    /\ ~terminated

\* C3: a step that starts a trajectory gives it an id no trajectory had
\* before; no id is ever assigned twice; the ids a worker gets strictly
\* increase.
C3_UniqueIncreasingIds ==
    [][/\ \A id \in DOMAIN idUse' : idUse'[id] = 1
       /\ \A w \in Workers :
            /\ (pc[w] = "start" /\ pc'[w] = "observe") =>
                  /\ mCurrentTrajectoryNum'[w] \notin DOMAIN idUse
                  /\ mCurrentTrajectoryNum'[w] \in DOMAIN idUse'
            /\ mCurrentTrajectoryNum'[w] # mCurrentTrajectoryNum[w] =>
                  mCurrentTrajectoryNum'[w] > mCurrentTrajectoryNum[w]]_vars

\* C3 witness: three ids were assigned, worker 1 holds the third and worker 2
\* the second, so one of them got two ids with the other's in between or after
C3_Witness ==
    /\ mParticleNumber = 3
    /\ DOMAIN idUse = {1, 2, 3}
    /\ mCurrentTrajectoryNum[1] = 3
    /\ mCurrentTrajectoryNum[2] = 2

\* a call that may follow another on the same observer from the same worker
LegalCall(a, b) ==
    /\ b.kind = "start" => a.kind \in {"none", "end"} /\ b.traj # a.traj
    /\ b.kind = "watch" => a.kind \in {"start", "watch"} /\ b.traj = a.traj
    /\ b.kind = "end" => a.kind \in {"start", "watch"} /\ b.traj = a.traj
    /\ b.kind # "none"

\* positions of a worker inside a trajectory
InTrajectory == {"observe", "step", "finish", "replay"}

\* C4: for each worker and each observer, every call follows the pattern
\* start, watch*, end of one trajectory; a started trajectory gets start on
\* every local observer; outside a trajectory no observer is left without
\* its end, also when the trajectory stopped early.
C4_CallsAlternate ==
    [][\A w \in Workers :
         /\ \A o \in ObsIds :
              /\ lastCall'[w][o] # lastCall[w][o] =>
                    LegalCall(lastCall[w][o], lastCall'[w][o])
              /\ pc'[w] \notin InTrajectory =>
                    lastCall'[w][o].kind \in {"none", "end"}
         /\ (pc[w] = "start" /\ pc'[w] = "observe") =>
               \A o \in mLocalWatches(mWatches) :
                  lastCall'[w][o] = Call("start", mCurrentTrajectoryNum'[w], 0)]_vars

\* C4 witness: a trajectory of worker 1 that was not the first of the run
\* was stopped early by StopTrajectory and both observers have received its
\* end
C4_Witness ==
    /\ exc[1] = "StopTrajectory"
    /\ pc[1] = "advance"
    /\ mWatches = <<"energy", "local">>
    /\ \E id \in 2..MaxParticles :
          /\ mCurrentTrajectoryNum[1] = id
          /\ lastCall[1][1] = Call("end", id, 0)
          /\ lastCall[1][2] = Call("end", id, 0)

\* a call that leaves the trajectory block of an observer open
OpenCall(c) == c.kind \in {"start", "watch"}

\* C5: on a thread-shared observer the calls of one trajectory (start, the
\* cached points in time order from the first on, end) are made while the
\* worker holds the observer's lock, and no call of another worker falls
\* between them: at most one worker has a block open, and a call is only
\* made while no other worker's block is open.
C5_SharedBlockUninterrupted ==
    [][\A f \in ObsIds : (f <= Len(mWatches) /\ IsShared(mWatches[f])) =>
         /\ Cardinality({w \in Workers : OpenCall(lastCall'[w][f])}) <= 1
         /\ \A w \in Workers : lastCall'[w][f] # lastCall[w][f] =>
              /\ \A v \in Workers \ {w} : ~OpenCall(lastCall[v][f])
              /\ mMutex[f] = w \/ mMutex'[f] = w
              /\ LegalCall(lastCall[w][f], lastCall'[w][f])
              /\ lastCall'[w][f].kind = "watch" =>
                    lastCall'[w][f].t = IF lastCall[w][f].kind = "start" THEN 0
                                        ELSE lastCall[w][f].t + 1]_vars

\* C5 witness: worker 1 has replayed the second point of a trajectory to
\* the shared observer while worker 2 waits with a finished trajectory
C5_Witness ==
    /\ mWatches = <<"energy", "shared">>
    /\ pc[1] = "replay"
    /\ mMutex[2] = 1
    /\ lastCall[1][2] = Call("watch", mCurrentTrajectoryNum[1], 1)
    /\ pc[2] = "finish"
    /\ mCurrentTrajectory[2] > 0
    /\ sharedDone[2] = 0

\* C6: a step in which the dynamics signals OutOfDomain sends that worker to
\* finishTrajectory and leaves every other worker as it was; the trajectory
\* gets its end on every local observer and is counted, after which the
\* worker pulls the next initial condition; a worker fails, and trace()
\* unwinds, only because of a std::runtime_error.
C6_OutOfDomainEndsTrajectoryOnly ==
    [][/\ \A w \in Workers :
            /\ (exc'[w] = "OutOfDomain" /\ exc[w] # "OutOfDomain") =>
                  /\ pc'[w] = "finish"
                  /\ \A v \in Workers \ {w} : pc'[v] = pc[v] /\ exc'[v] = exc[v]
                  /\ mainPc' = mainPc
            /\ (exc[w] = "OutOfDomain" /\ pc[w] = "finish" /\ pc'[w] # "finish") =>
                  pc'[w] \in {"replay", "advance"}
            /\ (exc[w] = "OutOfDomain" /\ pc[w] = "finish" /\ pc'[w] = "advance") =>
                  /\ \A o \in mLocalWatches(mWatches) :
                        lastCall'[w][o] = Call("end", mCurrentTrajectoryNum[w], 0)
                  /\ mParticleCount' = mParticleCount + 1
            /\ pc'[w] \in {"unwind", "failed"} => exc'[w] = "runtime_error"
       /\ mainPc' = "unwind" =>
            \E w \in Workers : pc'[w] = "failed" /\ exc'[w] = "runtime_error"]_vars

\* C6 witness: worker 1 pulls the next initial condition after a trajectory
\* that left the domain and was ended on its observer
C6_Witness ==
    /\ exc[1] = "OutOfDomain"
    /\ pc[1] = "generate"
    /\ lastCall[1][1] = Call("end", mCurrentTrajectoryNum[1], 0)
    /\ mParticleCount >= 1
    /\ mainPc = "join"

\* C7: no observer gets endTracing more than once; it is delivered only
\* after every started worker has returned and every clone was reduced; when
\* trace() has returned every observer of the tracer has got it.
C7_EndTracingOnceAfterAll ==
    /\ \A o \in ObsIds : endTracingCalls[o] <= 1
    /\ (\E o \in ObsIds : endTracingCalls[o] > 0) =>
          /\ mainPc = "returned"
          /\ \A w \in 1..threadcount :
                /\ pc[w] = "done"
                /\ \A o \in mLocalWatches(mWatches) :
                      combined[w][o] = 1 /\ ~mRootObserver[w][o]
    /\ mainPc = "returned" =>
          \A o \in 1..Len(mWatches) : endTracingCalls[o] = 1

\* C7 witness: trace() returned after two workers traced four particles
\* under two observers, each of which got endTracing once
C7_Witness ==
    /\ mainPc = "returned"
    /\ threadcount = 2
    /\ mCurrentTrajectoryNum[1] > 0 /\ mCurrentTrajectoryNum[2] > 0
    /\ mParticleCount = 4
    /\ Len(mWatches) = 2
    /\ endTracingCalls = [o \in ObsIds |-> 1]

\* C8 as stated: when trace() has returned, at least one worker was started,
\* the generator is exhausted and every initial condition of the box was
\* traced (started and ended) exactly once.
C8_ReturnedMeansAllTraced ==
    mainPc = "returned" =>
        /\ threadcount >= 1
        /\ ~mManifoldIndex.valid
        /\ DOMAIN started = Box(mManifoldIndex)
        /\ DOMAIN ended = Box(mManifoldIndex)
        /\ \A c \in Box(mManifoldIndex) : started[c] = 1 /\ ended[c] = 1

\* ========================================================================
\*  Further properties of MultiIndex
\* ========================================================================

\* C11: a call of setLowerBound, setLowerBoundAt, setUpperBound or
\* setUpperBoundAt on a valid index throws std::logic_error and leaves the
\* index (bounds, position, validity) as it was.
C11_SettersThrowWhileValid ==
    [][(/\ index.valid
        /\ \/ IndexSetLowerBound
           \/ IndexSetLowerBoundAt
           \/ IndexSetUpperBound
           \/ IndexSetUpperBoundAt)
       => (indexErr' = "logic_error" /\ index' = index)]_vars

\* C11 witness: two increments into the iteration of a two-axis index,
\* setUpperBoundAt has thrown and the index still stands at its position
C11_Witness ==
    /\ index.valid
    /\ index.dim = 2
    /\ indexSteps = 2
    /\ Rank(index) = 2
    /\ indexErr = "logic_error"
    /\ indexErrBy = "setUpperBoundAt"

\* C12 as stated: no MultiIndex has more than MAX_MULTIINDEX_DIMENSION axes,
\* whichever constructor made it.
C12_NeverMoreThanMaxAxes ==
    index.dim <= MAX_MULTIINDEX_DIMENSION

\* ========================================================================
\*  Properties of DynamicGridBase
\* ========================================================================
\* remainder of the truncating division of C++
TruncRem(i, E) == IF i >= 0 THEN i % E ELSE 0 - ((0 - i) % E)

\* ((i mod E) + E) mod E
Representative(i, E) == (TruncRem(i, E) + E) % E

\* C13: in periodic access mode every index component i, negative ones
\* included, on an axis of extent E is mapped to ((i mod E) + E) mod E: the
\* offset returned is the one built from these representatives
C13_PeriodicIsRepresentative ==
    (lookup.by # "none" /\ lookup.mode = "PERIODIC")
        => lookup.offset =
              Horner([i \in 1..Len(lookup.index) |->
                         Representative(lookup.index[i], grid.mExtents[i])],
                     grid.mExtents, 1, 0)

\* C14: no grid is in FFT-centred access mode with an axis of odd extent
C14_NoOddFFTGrid ==
    (gridErr = "none" /\ grid.mTrafoType = "FFT_INDEX")
        => \A i \in 1..grid.mDimension : grid.mExtents[i] % 2 = 0

\* ========================================================================
\*  Properties of Potential
\* ========================================================================
\* C15: every grid stored in the potential has the potential's dimension and
\* exactly the potential's extents, and every derivative index used as a key
\* has as many entries as the potential has axes, none of them negative
C15_StoredGridsMatchPotential ==
    \A k \in DOMAIN pot.mData :
        /\ pot.mData[k].mDimension = pot.mDimension
        /\ pot.mData[k].mExtents = pot.mExtents
        /\ Len(k.derivations) = pot.mDimension
        /\ \A i \in 1..Len(k.derivations) : k.derivations[i] >= 0

\* ========================================================================
\*  Properties of ParticleInPotentialDynamics
\* ========================================================================
\* C16: normalizeEnergy fails whenever the potential at the position of the
\* state is greater than or equal to the requested total energy, equality
\* included
C16_FailsWhenPotentialNotBelow ==
    (normCall.called /\ normCall.epot >= normCall.total_energy)
        => normCall.err = "runtime_error"

\* ========================================================================
\*  Properties of randomizePhases
\* ========================================================================
\* the index tuples of the FFT-centred box of a grid
FftIndices(extents) ==
    {n \in [1..Len(extents) -> (0 - MaxRndExtent)..MaxRndExtent] :
        \A i \in 1..Len(extents) :
            0 - (extents[i] \div 2) <= n[i] /\ n[i] < extents[i] \div 2}

\* the value at n is the complex conjugate of the value at -n: the phases
\* add up to a full turn
Hermitian(f, extents) ==
    \A n \in FftIndices(extents) :
        (f[FFTIndexFn(n, extents)]
            + f[FFTIndexFn([i \in 1..Len(extents) |-> 0 - n[i]], extents)])
                % QuarterTurns = 0

\* C17: after phase randomisation, with any number of partitions and
\* workers, the value at every index n is the complex conjugate of the
\* value at -n
C17_HermitianAfterRandomize ==
    randPc = "returned" => Hermitian(field, fieldExtents)

\* two tasks have run to the end and a phase that is not real was multiplied in
C17_Witness ==
    /\ randPc = "returned"
    /\ Len(tasks) = 2
    /\ fieldExtents = <<4, 2>>
    /\ \E o \in DOMAIN field : field[o] = 1

\* ========================================================================
\*  Properties of args::ArgumentSet
\* ========================================================================
\* C18: once a multi-valued positional argument has been added, adding any
\* further positional argument, required or optional, fails with an error
C18_NoPositionalAfterMulti ==
    (addCall.called /\ addCall.afterMulti /\ addCall.positional)
        => addCall.err = "logic_error"

\* ========================================================================
\*  Properties of InitialConditionGenerator::init
\* ========================================================================
\* a configuration init has to refuse (the cases of InitConfigFixture): no
\* particles, energy normalisation without dynamics, a support or an offset
\* that does not have the dimension of the world
ConfigInvalid(g, config) ==
    \/ config.particles = 0
    \/ (config.normalize /\ ~config.dynamics)
    \/ config.support # g.mWorldDimension
    \/ config.offset # g.mWorldDimension

\* C19: when init(config) throws because the configuration is invalid, the
\* stored configuration and the iteration state of the generator are the
\* ones from before the call (a step that is not an advance is an init call)
C19_InvalidConfigLeavesGenerator ==
    [][(/\ ~GenAdvance
        /\ initCall'.called
        /\ ConfigInvalid(generator, initCall'.config)
        /\ initCall'.err # "none")
       => generator' = generator]_vars

\* an invalid configuration was refused by a generator that holds a valid
\* one and is in the middle of its iteration
C19_Witness ==
    /\ initCall.called
    /\ initCall.err = "logic_error"
    /\ ConfigInvalid(generator, initCall.config)
    /\ generator.mConfig.particles = MaxParticles
    /\ generator.mManifoldIndex.valid
    /\ generator.mManifoldIndex.pos # generator.mManifoldIndex.lower

\* ========================================================================
\*  Properties of DensityWorker
\* ========================================================================
\* how often trajectory t was drawn, over all grids
TimesDrawn(t) == SumGrids(worker.mDensities, 1)[t]

\* C20: when the grids are reduced and when the worker is destroyed the
\* queue is empty, and every trajectory handed to the queue has been drawn
\* into a grid exactly once
C20_AllDrawnOnceBeforeReduce ==
    densMain.pc # "tracing"
        => /\ worker.mQueue = <<>>
           /\ \A t \in 1..densMain.count : TimesDrawn(t) = 1


\* the thread is inside addLocalDensity or between raising mMaxQueueSize and
\* the call
InAddLocalDensity(th) ==
    densThread[th].pc \in {"add_read", "add_lock", "add_check", "add_count", "add_free"}

\* C21: a worker that rests in push_trajectory, because the queue is above
\* its maximum and no grid may be added, leaves the rest again: the queue
\* drains below the maximum in every interleaving.
C21_WaitingWorkerLeaves ==
    \A th \in DensThreads :
        (densThread[th].pc = "wait") ~> (densThread[th].pc # "wait")

\* C22: while no thread is about to add a grid, mMaxQueueSize is its first
\* value plus one step for every grid added after construction.
C22_MaxQueueFollowsGrids ==
    (densMain.pc = "tracing" /\ \A th \in DensThreads : ~InAddLocalDensity(th))
        => worker.mMaxQueueSize =
              QueueLimit + QueueLimit * (Len(worker.mDensities) - 1)

\* C23: a thread draws into a grid only while it holds the mutex of that
\* grid, so no two threads draw into the same grid at the same time, also
\* while another thread adds a grid.
C23_DrawOnlyUnderGridMutex ==
    /\ \A th \in DensThreads :
          densThread[th].pc = "draw" =>
              /\ densThread[th].free_index + 1 <= Len(worker.mDensities)
              /\ worker.mWorkMutexes[densThread[th].free_index + 1] = th
    /\ \A t1, t2 \in DensThreads :
          (/\ t1 # t2
           /\ densThread[t1].pc = "draw"
           /\ densThread[t2].pc = "draw")
              => densThread[t1].free_index # densThread[t2].free_index

\* C23 witness: two threads draw at the same time, into the first and into
\* the added grid, and a state where one thread draws while another is in
\* addLocalDensity with the new grid created but not yet counted was passed
C23_Witness ==
    \E t1, t2 \in DensThreads :
        /\ densThread[t1].pc = "draw" /\ densThread[t1].free_index = 0
        /\ densThread[t2].pc = "draw" /\ densThread[t2].free_index = 1

\* a thread draws into the first grid while another one is adding a grid
C23_WitnessAdding ==
    \E t1, t2 \in DensThreads :
        /\ densThread[t1].pc = "draw"
        /\ densThread[t2].pc = "add_count"

\* C30: the counter of free grids is never negative, so the assert after a
\* successful try_lock holds.
C30_FreeGridsNeverNegative == worker.mFreeGrids >= 0

\* ========================================================================
\*  Properties of the MasterObserver callback and of CausticObserver
\* ========================================================================
\* position in the log of the start of the trajectory event k belongs to
RECURSIVE LastStart(_, _)
LastStart(log, k) ==
    IF k = 0 THEN 0
    ELSE IF log[k].ev = "start" THEN k ELSE LastStart(log, k - 1)

\* observer o has returned false from a watch call among the events from..to
ReturnedFalse(log, from, to, o) ==
    \E j \in from..to :
        /\ log[j].ev = "sample"
        /\ o \in log[j].called
        /\ o \notin log[j].kept

SampleEvents == {k \in 1..Len(obsLog) : obsLog[k].ev = "sample"}

CausticAt == CHOOSE o \in 1..Len(obs.mWatches) : obs.mWatches[o] = "caustic"

\* C24: at every sample a local observer is watched exactly when it has not
\* returned false from watch earlier in the same trajectory: none is watched
\* after its false, and each is watched again from the first sample of the
\* next trajectory.
C24_DroppedUntilTrajectoryEnds ==
    \A k \in SampleEvents :
        \A o \in mLocalWatches(obs.mWatches) :
            (o \in obsLog[k].called)
                <=> ~ReturnedFalse(obsLog, LastStart(obsLog, k), k - 1, o)

\* C24 witness: an observer returned false at the first sample of the first
\* trajectory, a later sample of that trajectory went on without it, and it
\* was watched again at the first sample of the second trajectory
C24_Witness ==
    \E o \in mLocalWatches(obs.mWatches) :
        \E k1, k2, k3 \in SampleEvents :
            /\ k1 < k2 /\ k2 < k3
            /\ LastStart(obsLog, k1) = 1 /\ LastStart(obsLog, k2) = 1
            /\ o \in obsLog[k1].called /\ o \notin obsLog[k1].kept
            /\ o \notin obsLog[k2].called
            /\ LastStart(obsLog, k3) > 1
            /\ obsLog[k3].t = 0
            /\ o \in obsLog[k3].called

\* C25: the callback throws exactly when, after the sample was delivered, no
\* local observer is active any more and there is no thread-shared observer.
C25_ThrowsWhenNobodyWatches ==
    \A k \in SampleEvents :
        obsLog[k].thrown <=>
            /\ mSharedWatches(obs.mWatches) = <<>>
            /\ \A o \in mLocalWatches(obs.mWatches) :
                  ReturnedFalse(obsLog, LastStart(obsLog, k), k, o)

\* C25 witness: with two local observers and no shared one, the first sample
\* dropped one observer and returned, the second dropped the other and threw
C25_Witness ==
    /\ mSharedWatches(obs.mWatches) = <<>>
    /\ Cardinality(mLocalWatches(obs.mWatches)) = 2
    /\ \E k \in SampleEvents :
          /\ obsLog[k].t = 1
          /\ obsLog[k].thrown
          /\ Cardinality(obsLog[k].called) = 1
          /\ ~obsLog[k - 1].thrown
          /\ Cardinality(obsLog[k - 1].called) = 2

\* a sample after which no local observer was active did not throw, because
\* there is a thread-shared observer
C25_WitnessShared ==
    /\ mSharedWatches(obs.mWatches) # <<>>
    /\ mLocalWatches(obs.mWatches) # {}
    /\ \E k \in SampleEvents : obsLog[k].kept = {} /\ ~obsLog[k].thrown

\* C26: at a sample with t > 0 that the caustic observer watches, a caustic
\* record is added exactly when the product of the signed area of this and
\* of the previous sample is <= 0.
C26_CausticWhenProductNotPositive ==
    \A k \in SampleEvents :
        (/\ obsLog[k].t > 0
         /\ HasCaustic(obs.mWatches)
         /\ CausticAt \in obsLog[k].called)
            => ((obsLog[k].caustics = obsLog[k - 1].caustics + 1)
                    <=> obsLog[k].area * obsLog[k - 1].area <= 0)

\* C27: with mBreakOnFirst the watch that records a caustic returns false,
\* and no two records carry the same trajectory id.
C27_BreakOnFirstOnePerTrajectory ==
    (HasCaustic(obs.mWatches) /\ caustic.mBreakOnFirst) =>
        /\ \A k \in SampleEvents :
              (k > 1 /\ obsLog[k - 1].ev = "sample"
                     /\ obsLog[k].caustics > obsLog[k - 1].caustics)
                  => CausticAt \notin obsLog[k].kept
        /\ \A i, j \in 1..Len(caustic.mCausticPositions) :
              i # j => caustic.mCausticPositions[i].trajectory
                          # caustic.mCausticPositions[j].trajectory

\* C27 witness: with mBreakOnFirst both trajectories have their record, and
\* in the first one a later sample was delivered to the other observers
\* that the caustic observer did not get to see
C27_Witness ==
    /\ HasCaustic(obs.mWatches)
    /\ caustic.mBreakOnFirst
    /\ Len(caustic.mCausticPositions) = 2
    /\ caustic.mCausticPositions[1].trajectory = 1
    /\ caustic.mCausticPositions[2].trajectory = 2
    /\ \E k \in SampleEvents :
          /\ LastStart(obsLog, k) = 1
          /\ obsLog[k].t = 2
          /\ obsLog[k - 1].caustics = 1
          /\ CausticAt \notin obsLog[k].called

\* ========================================================================
\*  Properties of the iteration of InitialConditionGenerator
\* ========================================================================
\* C28: every manifold coordinate of an initial condition that was yielded
\* is (idx + 1/2) / upper, with idx the cell consumed for it and upper the
\* upper bound of that axis when the cell was consumed.
C28_CoordinatesAreCellCentres ==
    newCondition.mIsValid =>
        \A j \in 1..icg.mManifoldDimension :
            newCondition.mManifoldCoordinates[j][1] * 2 * newCondition.upper[j]
                = (2 * newCondition.mManifoldIndex[j] + 1)
                      * newCondition.mManifoldCoordinates[j][2]

\* ------------------------------------------------------------------------
\*  ArgumentSet::parse_token_vector: what a failed parse leaves behind
\* ------------------------------------------------------------------------
\* the exceptions thrown while the tokens are matched against the arguments
GatherErrors ==
    {"duplicate_argument_error", "missing_value_error", "runtime_error",
     "missing_argument_error", "bad_lexical_cast"}

\* a parse that failed while the tokens were matched has assigned nothing
GatherErrorsLeaveTargets ==
    (parseCall.count > 0 /\ parseCall.err \in GatherErrors)
        => targets = parseCall.before

\* C29: when parse_token_vector fails with an exception, none of the target
\* variables bound to the arguments has been modified
C29_FailedParseLeavesTargets ==
    (parseCall.count > 0 /\ parseCall.err # "none")
        => targets = parseCall.before

====
